---- MODULE Spec2Model ----
(***************************************************************************)
(* A model of ArikaJs/database: the query builder's SQL compilation, the   *)
(* TransactionManager, the pooled MySQL/PostgreSQL connections, the        *)
(* DatabaseManager's transaction entry point, Model.save() and delete()    *)
(* with observers, chunk / cursorPaginate / paginate, BelongsToMany pivot  *)
(* writes, update() / delete() of the builder, whereHas, eager loading,    *)
(* global scopes, soft deletes, read/write routing, the SQLite connection, *)
(* insert(), MorphTo, sibling transaction() calls, the DatabaseManager's   *)
(* connection map and the Migrator.                                        *)
(*                                                                         *)
(* Each component has its own specification (SpecQB, SpecTx, SpecConn,     *)
(* SpecDb, SpecModel, ...); the variables of the other components keep the *)
(* value they have after construction.                                     *)
(***************************************************************************)
EXTENDS Integers, Sequences, FiniteSets, TLC

VARIABLES
    qb,       \* the QueryBuilder instance under test (its private fields)
    ret,      \* what the last QueryBuilder call returned
    depth,    \* TransactionManager.depth, one entry per manager constructed
    stack,    \* the transaction() calls in progress, outermost first
    log,      \* the calls received by the Connection, in order
    last,     \* the transaction() call that finished last
    txOpen,   \* the connection has a transaction open
    txCalls,  \* transaction() calls made so far
    failures, \* driver failures so far
    writes,   \* statements issued by callbacks so far
    transactionConnection, \* MySQLConnection.transactionConnection (0: undefined)
    hasWritePool,          \* MySQLConnection.writePool is set
    checkedOut,            \* physical connections checked out of the master pool
    began,                 \* connections whose BEGIN succeeded, not yet committed/rolled back
    task,                  \* the callers of the connection, each one's pending call
    lastQuery,             \* the query() call made last
    attributes,            \* Model.attributes
    original,              \* Model.original
    exists,                \* Model.exists
    timestamps,            \* the model class's static timestamps
    serializeDateAsUtc,    \* the model class's static serializeDateAsUtc
    driver,                \* the driver of the model's connection
    now,                   \* the clock, in ticks
    touched,               \* the caller set an attribute since the last save()
    lastSave,              \* the save() / delete() call that finished last
    observers,             \* ObserverRegistry.observers.get(modelName)
    lastHooks,             \* the hooks that call invoked, the model before and after it
    nRows,                 \* the number of rows of the table the paging calls read
    chunk,                 \* the chunk() call: its loop variables and what it did
    walk,                  \* the walk over cursorPaginate() pages
    paged,                 \* what paginate() returned
    pivot,                 \* the rows of the pivot table that belong to the parent
    lastSync,              \* the sync() call that finished last
    writeDriver,           \* the driver of the connection update() / delete() run on
    tableIds,              \* the ids of the rows of the table they write
    lastWrite,             \* the update() / delete() call that finished last
    hasQb,                 \* the queryBuilder of the ModelQueryBuilder whereHas() is called on
    hasLog,                \* the whereHas() / whereDoesntHave() calls made on it
    hasRet,                \* what compiling it gave
    posts,                 \* the rows of the related table (posts of users)
    eagerLoad,             \* ModelQueryBuilder.eagerLoad.get(posts)
    loaded,                \* what get() did for each model it loaded
    scopes,                \* GlobalScopeRegistry.scopes.get(User), the names in insertion order
    scoped,                \* the ModelQueryBuilder made last, and the scopes applied to it
    found,                 \* the rows its get() returned
    softRows,              \* the rows of the table of the soft-deleting model class
    lastSoft,              \* the delete / restore / forceDelete call that finished last
    routeCfg,              \* the driver of a connection and whether its config has a write pool
    routed,                \* the statement query() was called with last, and the pool it went to
    sqSplit,               \* the SQLite config names separate read and write databases
    sqHandles,             \* for each database handle, its rows and its open transaction
    sqCalls,               \* the calls since the last beginTransaction(), each with the handle it ran on
    sqLast,                \* the call that finished last
    lastInsert,            \* the insert() call made last: its data, what it sent and returned
    morphParent,           \* MorphTo: the morph-type and morph-id attributes of the parent
    morphMap,              \* the morph types registered with map()
    morphFinds,            \* the find(id) calls dispatched, in order
    morphRet,              \* what the last get() returned or threw
    sibDepth,              \* TransactionManager.depth of the manager the sibling calls share
    sibCall,               \* the sibling transaction() calls, each one's position
    sibLog,                \* the statements the connection received, each with the call that sent it
    sibOverlapped,         \* a call was started while another was in progress
    mgrAsync,              \* DatabaseManager: createConnection is the asynchronous one
    mgrConnections,        \* DatabaseManager.connections, name to Connection object (0: no entry)
    mgrPending,            \* createConnection promises not yet resolved
    mgrObjects,            \* Connection objects constructed so far
    mgrUsed,               \* the Connection each call since the last closeAll() was given, by name
    mgrClosing,            \* a closeAll() is waiting for the connections to close
    migFiles,              \* Migrator: the migration files in migrationsPath (names as numbers, in name order)
    ledger,                \* the rows of the migrations table, in insertion order
    migApplied,            \* the files whose up() succeeded and whose down() has not succeeded since
    migCall                \* the migrate() / rollback() call in progress or finished last

qbVars == <<qb, ret>>
txVars == <<depth, stack, log, last, txOpen, txCalls, failures, writes>>

connVars == <<transactionConnection, hasWritePool, checkedOut, began, task, lastQuery>>
modelVars == <<attributes, original, exists, timestamps, serializeDateAsUtc, driver, now,
               touched, lastSave, observers, lastHooks>>
pagingVars == <<nRows, chunk, walk, paged>>
pivotVars == <<pivot, lastSync>>
writeVars == <<writeDriver, tableIds, lastWrite>>
hasVars == <<hasQb, hasLog, hasRet>>
eagerVars == <<posts, eagerLoad, loaded>>
scopeVars == <<scopes, scoped, found>>
\* the variables of the other components, which a component's steps leave alone
softVars == <<softRows, lastSoft>>
routeVars == <<routeCfg, routed>>
sqliteVars == <<sqSplit, sqHandles, sqCalls, sqLast>>
insertVars == <<lastInsert>>
morphVars == <<morphParent, morphMap, morphFinds, morphRet>>
siblingVars == <<sibDepth, sibCall, sibLog, sibOverlapped>>
mgrVars == <<mgrAsync, mgrConnections, mgrPending, mgrObjects, mgrUsed, mgrClosing>>
migVars == <<migFiles, ledger, migApplied, migCall>>
notQB == <<txVars, connVars, modelVars, pagingVars, pivotVars, writeVars, hasVars, eagerVars, scopeVars, softVars, routeVars, sqliteVars, insertVars, morphVars, siblingVars, mgrVars, migVars>>
notTx == <<qbVars, connVars, modelVars, pagingVars, pivotVars, writeVars, hasVars, eagerVars, scopeVars, softVars, routeVars, sqliteVars, insertVars, morphVars, siblingVars, mgrVars, migVars>>
notConn == <<qbVars, txVars, modelVars, pagingVars, pivotVars, writeVars, hasVars, eagerVars, scopeVars, softVars, routeVars, sqliteVars, insertVars, morphVars, siblingVars, mgrVars, migVars>>
notModel == <<qbVars, txVars, connVars, pagingVars, pivotVars, writeVars, hasVars, eagerVars, scopeVars, softVars, routeVars, sqliteVars, insertVars, morphVars, siblingVars, mgrVars, migVars>>
notPaging == <<qbVars, txVars, connVars, modelVars, pivotVars, writeVars, hasVars, eagerVars, scopeVars, softVars, routeVars, sqliteVars, insertVars, morphVars, siblingVars, mgrVars, migVars>>
notPivot == <<qbVars, txVars, connVars, modelVars, pagingVars, writeVars, hasVars, eagerVars, scopeVars, softVars, routeVars, sqliteVars, insertVars, morphVars, siblingVars, mgrVars, migVars>>
notWrite == <<qbVars, txVars, connVars, modelVars, pagingVars, pivotVars, hasVars, eagerVars, scopeVars, softVars, routeVars, sqliteVars, insertVars, morphVars, siblingVars, mgrVars, migVars>>
notHas == <<qbVars, txVars, connVars, modelVars, pagingVars, pivotVars, writeVars, eagerVars, scopeVars, softVars, routeVars, sqliteVars, insertVars, morphVars, siblingVars, mgrVars, migVars>>
notEager == <<qbVars, txVars, connVars, modelVars, pagingVars, pivotVars, writeVars, hasVars, scopeVars, softVars, routeVars, sqliteVars, insertVars, morphVars, siblingVars, mgrVars, migVars>>
notScope == <<qbVars, txVars, connVars, modelVars, pagingVars, pivotVars, writeVars, hasVars, eagerVars, softVars, routeVars, sqliteVars, insertVars, morphVars, siblingVars, mgrVars, migVars>>
notSoft == <<qbVars, txVars, connVars, modelVars, pagingVars, pivotVars, writeVars, hasVars, eagerVars, scopeVars, routeVars, sqliteVars, insertVars, morphVars, siblingVars, mgrVars, migVars>>
notRoute == <<qbVars, txVars, connVars, modelVars, pagingVars, pivotVars, writeVars, hasVars, eagerVars, scopeVars, softVars, sqliteVars, insertVars, morphVars, siblingVars, mgrVars, migVars>>
notSqlite == <<qbVars, txVars, connVars, modelVars, pagingVars, pivotVars, writeVars, hasVars, eagerVars, scopeVars, softVars, routeVars, insertVars, morphVars, siblingVars, mgrVars, migVars>>
notInsert == <<qbVars, txVars, connVars, modelVars, pagingVars, pivotVars, writeVars, hasVars, eagerVars, scopeVars, softVars, routeVars, sqliteVars, morphVars, siblingVars, mgrVars, migVars>>
notMorph == <<qbVars, txVars, connVars, modelVars, pagingVars, pivotVars, writeVars, hasVars, eagerVars, scopeVars, softVars, routeVars, sqliteVars, insertVars, siblingVars, mgrVars, migVars>>
notSibling == <<qbVars, txVars, connVars, modelVars, pagingVars, pivotVars, writeVars, hasVars, eagerVars, scopeVars, softVars, routeVars, sqliteVars, insertVars, morphVars, mgrVars, migVars>>
notMgr == <<qbVars, txVars, connVars, modelVars, pagingVars, pivotVars, writeVars, hasVars, eagerVars, scopeVars, softVars, routeVars, sqliteVars, insertVars, morphVars, siblingVars, migVars>>
notMig == <<qbVars, txVars, connVars, modelVars, pagingVars, pivotVars, writeVars, hasVars, eagerVars, scopeVars, softVars, routeVars, sqliteVars, insertVars, morphVars, siblingVars, mgrVars>>

(***************************************************************************)
(* Bounds of the model.                                                    *)
(***************************************************************************)
\* clause-method calls made on one builder (where-type, selectRaw, orderBy, ...)
MaxClauses == 3
\* transaction() calls in one run
MaxTxCalls == 4
\* statements the driver fails in one run
MaxFailures == 1
\* statements the callbacks issue in one run
MaxWrites == 1
\* callers sharing one connection object
NTasks == 2
\* physical connections of the master pool (pool.max)
PoolSize == 2
\* the clock's last tick
MaxTime == 4
\* ids the database may generate for an insert
MaxId == 2
\* observers registered for the model class
MaxObservers == 2
\* rows of the table the paging calls read
MaxRows == 8
\* chunk size / perPage
MaxCount == 3
\* page number asked of paginate()
MaxPage == 4
\* ids of related models
MaxRelated == 3
\* ids passed to one attach / detach / sync call
MaxIds == 2
\* pivot rows of the parent with the same related id
MaxCopies == 2
\* rows of the table update() / delete() write
MaxTableRows == 3
\* whereHas() / whereDoesntHave() calls on one builder
MaxHas == 2
\* users get() loads
MaxUsers == 2
\* rows of the posts table
MaxPosts == 3
\* clauses the caller chains on one model query
MaxChain == 2
\* rows of the soft-deleting model's table
MaxSoftRows == 3
\* instants new Date() may give
MaxStamp == 2
\* whitespace characters before a statement
MaxLead == 2
\* rows a SQLite connection may insert
MaxSqRows == 2
\* calls recorded after one beginTransaction()
MaxSqCalls == 4
\* rows given to one insert() call
MaxInsertRows == 2
MaxFinds == 2
NSiblings == 2
MaxConnections == 3
MaxFiles == 3
MaxBatch == 3

(***************************************************************************)
(* JavaScript values, as far as the code tells them apart.                 *)
(***************************************************************************)
Str(s) == [t |-> "string", s |-> s, n |-> 0]
Num(n) == [t |-> "number", s |-> "", n |-> n]
Undef == [t |-> "undefined", s |-> "", n |-> 0]
Null == [t |-> "null", s |-> "", n |-> 0]

\* `${x}` for the values the model uses
DigitStr(n) == CASE n = 0 -> "0" [] n = 1 -> "1" [] n = 2 -> "2" [] n = 3 -> "3"
                 [] n = 4 -> "4" [] OTHER -> "n"
JSToString(x) == CASE x.t = "string" -> x.s
                   [] x.t = "number" -> DigitStr(x.n)
                   [] x.t = "null" -> "null"
                   [] OTHER -> "undefined"

(***************************************************************************)
(* SQL text is a sequence of tokens. A placeholder token `?` carries, as   *)
(* an annotation that is not part of the text, the value its author meant  *)
(* it to be bound to.                                                      *)
(***************************************************************************)
Tok(s) == [k |-> "txt", s |-> s, v |-> Undef]
Ph(v) == [k |-> "ph", s |-> "?", v |-> v]

RECURSIVE Flatten(_)
Flatten(ss) == IF Len(ss) = 0 THEN <<>> ELSE Head(ss) \o Flatten(Tail(ss))

\* Array.prototype.join over token sequences
RECURSIVE Join(_, _)
Join(ss, sep) ==
    IF Len(ss) = 0 THEN <<>>
    ELSE IF Len(ss) = 1 THEN Head(ss)
    ELSE Head(ss) \o sep \o Join(Tail(ss), sep)

\* the annotations of the placeholders of a text, from the left
RECURSIVE Placeholders(_)
Placeholders(sql) ==
    IF Len(sql) = 0 THEN <<>>
    ELSE (IF Head(sql).k = "ph" THEN <<Head(sql).v>> ELSE <<>>) \o Placeholders(Tail(sql))

\* a raw fragment as its caller wrote it: the j-th `?` is meant for bindings[j]
\* (a `?` beyond the bindings given is meant for nothing)
RECURSIVE Annotate(_, _)
Annotate(words, bindings) ==
    IF Len(words) = 0 THEN <<>>
    ELSE IF Head(words) = "?"
         THEN <<Ph(IF Len(bindings) > 0 THEN Head(bindings) ELSE Undef)>>
              \o Annotate(Tail(words), IF Len(bindings) > 0 THEN Tail(bindings) ELSE <<>>)
         ELSE <<Tok(Head(words))>> \o Annotate(Tail(words), bindings)

(***************************************************************************)
(* QueryBuilder: state and clause methods.                                 *)
(***************************************************************************)
NoQuery == [tableName |-> "", selectColumns |-> <<>>, selectRawExpressions |-> <<>>,
            whereClauses |-> <<>>, orderByColumns |-> <<>>,
            limitValue |-> Undef, offsetValue |-> Undef, isNone |-> TRUE]

\* new QueryBuilder(connection)
NewQueryBuilder == [tableName |-> "", selectColumns |-> <<"*">>, selectRawExpressions |-> <<>>,
                    whereClauses |-> <<>>, orderByColumns |-> <<>>,
                    limitValue |-> Undef, offsetValue |-> Undef, isNone |-> FALSE]

WhereClause(type, column, operator, value, query, boolean) ==
    [type |-> type, column |-> column, operator |-> operator, value |-> value,
     query |-> query, boolean |-> boolean]

table(q, t) == [q EXCEPT !.tableName = t]

select(q, columns) == [q EXCEPT !.selectColumns = columns]

selectRaw(q, sql, bindings) ==
    [q EXCEPT !.selectRawExpressions = Append(@, [sql |-> sql, bindings |-> bindings])]

\* (a slip: the clause put in front of the list)
PushFront(q, w) == [q EXCEPT !.whereClauses = <<w>> \o @]

PushWhere(q, w) == [q EXCEPT !.whereClauses = Append(@, w)]

\* (a slip: the arguments taken as they are given)
WhereAsGiven(q, column, operator, value) ==
    PushWhere(q, WhereClause("basic", <<column>>, operator, <<value>>, NoQuery, "and"))

\* where(column, value) is where(column, '=', value)
where(q, column, operator, value) ==
    LET val == IF value = Undef THEN operator ELSE value
        op == IF value = Undef THEN Str("=") ELSE operator
    IN PushWhere(q, WhereClause("basic", <<column>>, op, <<val>>, NoQuery, "and"))

orWhere(q, column, operator, value) ==
    LET val == IF value = Undef THEN operator ELSE value
        op == IF value = Undef THEN Str("=") ELSE operator
    IN PushWhere(q, WhereClause("basic", <<column>>, op, <<val>>, NoQuery, "or"))

whereIn(q, column, values) ==
    PushWhere(q, WhereClause("in", <<column>>, Undef, values, NoQuery, "and"))

whereNotIn(q, column, values) ==
    PushWhere(q, WhereClause("notIn", <<column>>, Undef, values, NoQuery, "and"))

whereNull(q, column) ==
    PushWhere(q, WhereClause("null", <<column>>, Undef, <<>>, NoQuery, "and"))

whereNotNull(q, column) ==
    PushWhere(q, WhereClause("notNull", <<column>>, Undef, <<>>, NoQuery, "and"))

\* the fragment is kept in `column`, its bindings in `value`
whereRaw(q, sql, bindings) ==
    PushWhere(q, WhereClause("raw", sql, Undef, bindings, NoQuery, "and"))

orWhereRaw(q, sql, bindings) ==
    PushWhere(q, WhereClause("raw", sql, Undef, bindings, NoQuery, "or"))

\* `sub` is the fresh builder after the callback has run on it
whereExists(q, sub, boolean, not) ==
    PushWhere(q, WhereClause(IF not THEN "notExists" ELSE "exists", <<>>, Undef, <<>>,
                             sub, boolean))

whereNotExists(q, sub, boolean) == whereExists(q, sub, boolean, TRUE)

orderBy(q, column, direction) ==
    [q EXCEPT !.orderByColumns = Append(@, [column |-> column, direction |-> direction])]

limit(q, n) == [q EXCEPT !.limitValue = Num(n)]

offset(q, n) == [q EXCEPT !.offsetValue = Num(n)]

(***************************************************************************)
(* QueryBuilder: compilation.                                              *)
(***************************************************************************)
ToUpperCase(s) == CASE s = "and" -> "AND" [] s = "or" -> "OR"
                    [] s = "asc" -> "ASC" [] s = "desc" -> "DESC" [] OTHER -> s

QuestionMarks(values) == [i \in 1..Len(values) |-> <<Ph(values[i])>>]

Thrown(msg) == [ok |-> FALSE, error |-> msg, sql |-> <<>>, bindings |-> <<>>]
Built(sql, bindings) == [ok |-> TRUE, error |-> "", sql |-> sql, bindings |-> bindings]

RECURSIVE buildSelectQuery(_)
RECURSIVE CompileWhere(_, _)

\* one iteration of the forEach of buildWhereClause: the text and the bindings
\* that clause `index` adds
CompileWhere(w, index) ==
    LET boolean == IF index = 1 THEN <<>> ELSE <<Tok(ToUpperCase(w.boolean))>>
    IN CASE w.type = "basic" ->
              Built(boolean \o <<Tok(w.column[1]), Tok(JSToString(w.operator)), Ph(w.value[1])>>,
                    w.value)
         [] w.type = "in" ->
              Built(boolean \o <<Tok(w.column[1]), Tok("IN"), Tok("(")>>
                      \o Join(QuestionMarks(w.value), <<Tok(",")>>) \o <<Tok(")")>>,
                    w.value)
         [] w.type = "notIn" ->
              Built(boolean \o <<Tok(w.column[1]), Tok("NOT IN"), Tok("(")>>
                      \o Join(QuestionMarks(w.value), <<Tok(",")>>) \o <<Tok(")")>>,
                    w.value)
         [] w.type = "null" ->
              Built(boolean \o <<Tok(w.column[1]), Tok("IS NULL")>>, <<>>)
         [] w.type = "notNull" ->
              Built(boolean \o <<Tok(w.column[1]), Tok("IS NOT NULL")>>, <<>>)
         [] w.type = "raw" ->
              Built(boolean \o Annotate(w.column, w.value), w.value)
         [] OTHER ->
              IF w.query.isNone THEN Built(<<>>, <<>>)
              ELSE LET sub == buildSelectQuery(w.query)
                       existsOperator == IF w.type = "notExists" THEN "NOT EXISTS" ELSE "EXISTS"
                   IN IF ~sub.ok THEN sub
                      ELSE Built(boolean \o <<Tok(existsOperator), Tok("(")>> \o sub.sql
                                   \o <<Tok(")")>>,
                                 sub.bindings)

RECURSIVE WhereLoop(_, _)
\* the forEach of buildWhereClause from clause `index` on
WhereLoop(clauses, index) ==
    IF index > Len(clauses) THEN Built(<<>>, <<>>)
    ELSE LET c == CompileWhere(clauses[index], index)
             rest == WhereLoop(clauses, index + 1)
         IN IF ~c.ok THEN c
            ELSE IF ~rest.ok THEN rest
            ELSE Built(c.sql \o rest.sql, c.bindings \o rest.bindings)

buildWhereClause(q) ==
    IF Len(q.whereClauses) = 0 THEN Built(<<>>, <<>>)
    ELSE LET r == WhereLoop(q.whereClauses, 1)
         IN IF ~r.ok THEN r ELSE Built(<<Tok("WHERE")>> \o r.sql, r.bindings)

\* (a slip: the where bindings put before the select-raw bindings)
WhereBindingsFirst(selectBindings, whereBindings) == whereBindings \o selectBindings

\* the order in which buildSelectQuery puts the two binding lists together
SelectBindingOrder(selectBindings, whereBindings) == selectBindings \o whereBindings

buildSelectQuery(q) ==
    IF q.tableName = "" THEN Thrown("Table name is required")
    ELSE
    LET rawSelectSql == [i \in 1..Len(q.selectRawExpressions) |->
                            Annotate(q.selectRawExpressions[i].sql,
                                     q.selectRawExpressions[i].bindings)]
        selectBindings == Flatten([i \in 1..Len(q.selectRawExpressions) |->
                                      q.selectRawExpressions[i].bindings])
        named == [i \in 1..Len(q.selectColumns) |-> <<Tok(q.selectColumns[i])>>]
        joined == Join(named \o rawSelectSql, <<Tok(",")>>)
        columnsList == IF joined = <<>> THEN <<Tok("*")>> ELSE joined
        w == buildWhereClause(q)
        orderSql == IF Len(q.orderByColumns) > 0
                    THEN <<Tok("ORDER BY")>>
                         \o Join([i \in 1..Len(q.orderByColumns) |->
                                     <<Tok(q.orderByColumns[i].column),
                                       Tok(ToUpperCase(q.orderByColumns[i].direction))>>],
                                 <<Tok(",")>>)
                    ELSE <<>>
        limitSql == IF q.limitValue # Undef
                    THEN <<Tok("LIMIT"), Tok(JSToString(q.limitValue))>> ELSE <<>>
        offsetSql == IF q.offsetValue # Undef
                     THEN <<Tok("OFFSET"), Tok(JSToString(q.offsetValue))>> ELSE <<>>
    IN IF ~w.ok THEN w
       ELSE Built(<<Tok("SELECT")>> \o columnsList \o <<Tok("FROM"), Tok(q.tableName)>>
                    \o w.sql \o orderSql \o limitSql \o offsetSql,
                  SelectBindingOrder(selectBindings, w.bindings))

(***************************************************************************)
(* SpecQB: one builder, any sequence of clause calls, get() compiles it.   *)
(***************************************************************************)
This == [kind |-> "this", ok |-> TRUE, error |-> "", sql |-> <<>>, bindings |-> <<>>]
NoReturn == [kind |-> "none", ok |-> TRUE, error |-> "", sql |-> <<>>, bindings |-> <<>>]
Returned(r) == [kind |-> "built", ok |-> r.ok, error |-> r.error, sql |-> r.sql,
                bindings |-> r.bindings]

\* the inputs the calls are made with
Vals == {Num(1), Num(2)}
RawFragments == { [sql |-> <<"score", ">", "?", "OR", "rank", "<", "?">>,
                   bindings |-> <<Num(3), Num(4)>>],
                  [sql |-> <<"deleted_at", "IS NULL">>, bindings |-> <<>>],
                  [sql |-> <<"x", "=", "?">>, bindings |-> <<>>] }
SelectRawFragments == { [sql |-> <<"price", "*", "?", "as", "total">>, bindings |-> <<Num(4)>>],
                        [sql |-> <<"COUNT(*)", "as", "n">>, bindings |-> <<>>] }
SubPosts == whereRaw(where(table(NewQueryBuilder, "posts"), "status", Num(3), Undef),
                     <<"posts.user_id", "=", "users.id">>, <<>>)
SubOrders == limit(where(selectRaw(table(NewQueryBuilder, "orders"), <<"?">>, <<Num(1)>>),
                         "total", Str(">"), Num(2)), 1)
SubNested == where(whereExists(table(NewQueryBuilder, "teams"), SubOrders, "and", FALSE),
                   "size", Str("<"), Num(4))
SubNoTable == where(NewQueryBuilder, "id", Num(1), Undef)
SubBuilders == {SubPosts, SubOrders, SubNested, SubNoTable}

Size(q) == Len(q.whereClauses) + Len(q.selectRawExpressions) + Len(q.orderByColumns)
           + (IF q.limitValue # Undef THEN 1 ELSE 0) + (IF q.offsetValue # Undef THEN 1 ELSE 0)
           + (IF q.selectColumns # <<"*">> THEN 1 ELSE 0)

CanCall == Size(qb) < MaxClauses

Chain(q) == qb' = q /\ ret' = This /\ UNCHANGED notQB

QSelect == CanCall /\ Chain(select(qb, <<"id", "name">>))
QSelectRaw == CanCall /\ \E f \in SelectRawFragments : Chain(selectRaw(qb, f.sql, f.bindings))
QWhere == CanCall /\ \/ Chain(where(qb, "age", Str(">="), Num(1)))
                     \/ \E v \in Vals : Chain(where(qb, "id", v, Undef))
QOrWhere == CanCall /\ \/ Chain(orWhere(qb, "age", Str("<"), Num(3)))
                       \/ Chain(orWhere(qb, "id", Num(4), Undef))
QWhereIn == CanCall /\ \E vs \in {<<>>, <<Num(1), Num(2)>>} : Chain(whereIn(qb, "role", vs))
QWhereNotIn == CanCall /\ Chain(whereNotIn(qb, "role", <<Num(3)>>))
QWhereNull == CanCall /\ Chain(whereNull(qb, "deleted_at"))
QWhereNotNull == CanCall /\ Chain(whereNotNull(qb, "email"))
QWhereRaw == CanCall /\ \E f \in RawFragments : Chain(whereRaw(qb, f.sql, f.bindings))
QOrWhereRaw == CanCall /\ Chain(orWhereRaw(qb, <<"level", "=", "?">>, <<Num(2)>>))
QWhereExists == CanCall /\ \/ \E sub \in SubBuilders : Chain(whereExists(qb, sub, "and", FALSE))
                           \/ Chain(whereExists(qb, SubPosts, "or", FALSE))
QWhereNotExists == CanCall /\ Chain(whereNotExists(qb, SubOrders, "and"))
QOrderBy == CanCall /\ Chain(orderBy(qb, "id", "desc"))
QLimit == CanCall /\ Chain(limit(qb, 2))
QOffset == CanCall /\ Chain(offset(qb, 0))
\* get() up to the compiled statement it sends
QGet == qb' = qb /\ ret' = Returned(buildSelectQuery(qb)) /\ UNCHANGED notQB

\* DatabaseManager.table(): new QueryBuilder(connection).table(tableName)
QBInit == qb = table(NewQueryBuilder, "users") /\ ret = NoReturn

QBNext == \/ QSelect \/ QSelectRaw \/ QWhere \/ QOrWhere \/ QWhereIn
          \/ QWhereNotIn \/ QWhereNull \/ QWhereNotNull \/ QWhereRaw \/ QOrWhereRaw
          \/ QWhereExists \/ QWhereNotExists \/ QOrderBy \/ QLimit \/ QOffset \/ QGet

vars == <<qbVars, txVars, connVars, modelVars, pagingVars, pivotVars, writeVars, hasVars, eagerVars, scopeVars, softVars, routeVars, sqliteVars, insertVars, morphVars, siblingVars, mgrVars, migVars>>

(***************************************************************************)
(* C1: placeholders and bindings of the compiled SELECT.                   *)
(***************************************************************************)
CountQ(words) == Cardinality({i \in 1..Len(words) : words[i] = "?"})

RECURSIVE RawBalanced(_)
\* the claim's precondition: every raw fragment has as many bindings as `?`
RawBalanced(q) ==
    /\ \A i \in 1..Len(q.selectRawExpressions) :
          CountQ(q.selectRawExpressions[i].sql) = Len(q.selectRawExpressions[i].bindings)
    /\ \A i \in 1..Len(q.whereClauses) :
          LET w == q.whereClauses[i]
          IN /\ w.type = "raw" => CountQ(w.column) = Len(w.value)
             /\ w.type \in {"exists", "notExists"} => RawBalanced(w.query)

RECURSIVE AppendOrder(_)
\* select-raw bindings, then each clause's bindings in the order the clauses were added
AppendOrder(q) ==
    Flatten([i \in 1..Len(q.selectRawExpressions) |-> q.selectRawExpressions[i].bindings])
    \o Flatten([i \in 1..Len(q.whereClauses) |->
                  IF q.whereClauses[i].type \in {"exists", "notExists"}
                  THEN AppendOrder(q.whereClauses[i].query)
                  ELSE q.whereClauses[i].value])

\* C1: in the SELECT built by buildSelectQuery the i-th `?` from the left is the
\* placeholder of the i-th binding (so there are as many `?` as bindings), and the
\* bindings are the select-raw bindings followed by the where bindings in
\* clause-append order, a nested exists-builder's bindings at its clause's place.
C1_PlaceholdersMatchBindings ==
    (ret.kind = "built" /\ ret.ok /\ RawBalanced(qb))
        => /\ Placeholders(ret.sql) = ret.bindings
           /\ ret.bindings = AppendOrder(qb)

\* a compiled SELECT with a select-raw binding, an exists clause that brings its own
\* bindings and a basic clause after it
C1_Witness ==
    /\ ret.kind = "built" /\ ret.ok /\ RawBalanced(qb)
    /\ Len(ret.bindings) >= 4
    /\ \E i \in 1..Len(qb.selectRawExpressions) : Len(qb.selectRawExpressions[i].bindings) > 0
    /\ \E i, j \in 1..Len(qb.whereClauses) :
          /\ i < j
          /\ qb.whereClauses[i].type \in {"exists", "notExists"}
          /\ qb.whereClauses[j].type = "basic"

(***************************************************************************)
(* TransactionManager over a Connection.                                   *)
(*                                                                         *)
(* A step is what runs between two awaits. The calls are strictly nested:  *)
(* a transaction() call is made by the callback of the innermost call in   *)
(* progress (or by the program, when none is). A callback may catch the    *)
(* rejection of a nested call and go on.                                   *)
(***************************************************************************)
Stmt(op, level) == [op |-> op, level |-> level]

\* lines 20-25: what a call at depth d sends first (sp_level<d> is written as d)
EnterStatement(d) == IF d = 0 THEN Stmt("BEGIN", 0) ELSE Stmt("SAVEPOINT", d)
\* lines 34-38, after the decrement
SuccessStatement(d) == IF d = 0 THEN Stmt("COMMIT", 0) ELSE Stmt("RELEASE SAVEPOINT", d)
\* lines 44-48, after the decrement
FailureStatement(d) == IF d = 0 THEN Stmt("ROLLBACK", 0) ELSE Stmt("ROLLBACK TO SAVEPOINT", d)

NoCall == [outcome |-> "none", err |-> "", cbErr |-> "", level |-> 0, mgr |-> 0,
           depthBefore |-> 0, depthAfter |-> 0, nestedOK |-> 0,
           entry |-> Stmt("", 0), exits |-> <<>>, stmts |-> <<>>]

Frame(m, d, level, start) ==
    [pc |-> "entering", mgr |-> m, level |-> level, depthBefore |-> d,
     entry |-> EnterStatement(d), exits |-> <<>>, cbErr |-> "", err |-> "",
     caught |-> "", nestedOK |-> 0, logStart |-> start]

Top == stack[Len(stack)]
InCallback == Len(stack) > 0 /\ Top.pc = "callback"
SetTop(f) == [stack EXCEPT ![Len(stack)] = f]

\* the connection's own precondition errors, raised before any I/O:
\* 'Transaction already started', 'No transaction to commit/rollback'
Refused(stmt) == \/ stmt.op = "BEGIN" /\ txOpen
                 \/ stmt.op \in {"COMMIT", "ROLLBACK"} /\ ~txOpen

\* the transaction state of the connection after `stmt` succeeded
OpenAfter(stmt) == CASE stmt.op = "BEGIN" -> TRUE
                     [] stmt.op \in {"COMMIT", "ROLLBACK"} -> FALSE
                     [] OTHER -> txOpen

MayFail(stmt) == Refused(stmt) \/ failures < MaxFailures
Failed(stmt) == failures' = IF Refused(stmt) THEN failures ELSE failures + 1

\* the promise of the innermost call settles: its frame goes, its caller goes on
Settle(f, outcome, err, d) ==
    /\ last' = [outcome |-> outcome, err |-> err, cbErr |-> f.cbErr, level |-> f.level,
                mgr |-> f.mgr, depthBefore |-> f.depthBefore, depthAfter |-> d,
                nestedOK |-> f.nestedOK, entry |-> f.entry, exits |-> f.exits,
                stmts |-> SubSeq(log, f.logStart, Len(log))]
    /\ stack' = IF Len(stack) = 1 THEN <<>>
                ELSE LET parent == stack[Len(stack) - 1]
                         released == f.exits = <<Stmt("RELEASE SAVEPOINT", f.entry.level)>>
                         p == IF outcome = "resolved"
                              THEN [parent EXCEPT !.nestedOK = IF released THEN @ + 1 ELSE @]
                              ELSE [parent EXCEPT !.caught = err]
                     IN [SubSeq(stack, 1, Len(stack) - 1) EXCEPT ![Len(stack) - 1] = p]

\* lines 20-25: transaction() on manager m, whose depth is d, sends BEGIN or
\* SAVEPOINT and awaits it
Enter(m, d) ==
    /\ txCalls < MaxTxCalls
    /\ Len(stack) = 0 \/ InCallback
    /\ txCalls' = txCalls + 1
    /\ stack' = Append(stack, Frame(m, d, Len(stack) + 1, Len(log) + 1))
    /\ log' = Append(log, EnterStatement(d))
    /\ UNCHANGED <<notTx, last, txOpen, failures, writes>>

\* line 27: the statement succeeded; depth++ and the callback starts
TxEntered ==
    /\ Len(stack) > 0 /\ Top.pc = "entering"
    /\ ~Refused(Top.entry)
    /\ depth' = [depth EXCEPT ![Top.mgr] = @ + 1]
    /\ txOpen' = OpenAfter(Top.entry)
    /\ stack' = SetTop([Top EXCEPT !.pc = "callback"])
    /\ UNCHANGED <<notTx, log, last, txCalls, failures, writes>>

\* lines 21/24 throw: the call rejects before depth++ and before the try
TxEnterFailed ==
    /\ Len(stack) > 0 /\ Top.pc = "entering"
    /\ MayFail(Top.entry) /\ Failed(Top.entry)
    /\ Settle(Top, "rejected", "DriverError(enter)", depth[Top.mgr])
    /\ UNCHANGED <<notTx, depth, log, txOpen, txCalls, writes>>

\* the callback sends a statement of its own
CbWrite ==
    /\ InCallback /\ writes < MaxWrites
    /\ writes' = writes + 1
    /\ log' = Append(log, Stmt("INSERT", 0))
    /\ UNCHANGED <<notTx, depth, stack, last, txOpen, txCalls, failures>>

\* lines 30-38: the callback resolved; depth--, then COMMIT or RELEASE SAVEPOINT
CbResolve ==
    /\ InCallback
    /\ LET d == depth[Top.mgr] - 1
       IN /\ depth' = [depth EXCEPT ![Top.mgr] = d]
          /\ log' = Append(log, SuccessStatement(d))
          /\ stack' = SetTop([Top EXCEPT !.pc = "committing",
                                         !.exits = Append(@, SuccessStatement(d))])
    /\ UNCHANGED <<notTx, last, txOpen, txCalls, failures, writes>>

\* lines 41-48: the catch block with `error`; depth--, then ROLLBACK (TO SAVEPOINT)
Catch(error, fromCallback) ==
    LET d == depth[Top.mgr] - 1
    IN /\ depth' = [depth EXCEPT ![Top.mgr] = d]
       /\ log' = Append(log, FailureStatement(d))
       /\ stack' = SetTop([Top EXCEPT !.pc = "rollingBack", !.err = error,
                                      !.cbErr = IF fromCallback THEN error ELSE @,
                                      !.exits = Append(@, FailureStatement(d))])

\* line 30 throws: the callback rejected, with an error of its own or with the
\* rejection of a nested call
CbReject ==
    /\ InCallback
    /\ \E e \in {"E"} \cup ({Top.caught} \ {""}) : Catch(e, TRUE)
    /\ UNCHANGED <<notTx, last, txOpen, txCalls, failures, writes>>

\* line 40: COMMIT / RELEASE SAVEPOINT succeeded
TxCommitted ==
    /\ Len(stack) > 0 /\ Top.pc = "committing"
    /\ ~Refused(Top.exits[1])
    /\ txOpen' = OpenAfter(Top.exits[1])
    /\ Settle(Top, "resolved", "", depth[Top.mgr])
    /\ UNCHANGED <<notTx, depth, log, txCalls, failures, writes>>

\* lines 35/37 throw inside the try: the catch block runs as well
TxCommitFailed ==
    /\ Len(stack) > 0 /\ Top.pc = "committing"
    /\ MayFail(Top.exits[1]) /\ Failed(Top.exits[1])
    /\ Catch("DriverError(commit)", FALSE)
    /\ UNCHANGED <<notTx, last, txOpen, txCalls, writes>>

\* line 50: the rollback statement succeeded; rethrow
TxRolledBack ==
    /\ Len(stack) > 0 /\ Top.pc = "rollingBack"
    /\ LET stmt == Top.exits[Len(Top.exits)]
       IN /\ ~Refused(stmt)
          /\ txOpen' = OpenAfter(stmt)
    /\ Settle(Top, "rejected", Top.err, depth[Top.mgr])
    /\ UNCHANGED <<notTx, depth, log, txCalls, failures, writes>>

\* lines 45/47 throw inside the catch block: that error leaves the call
TxRollbackFailed ==
    /\ Len(stack) > 0 /\ Top.pc = "rollingBack"
    /\ LET stmt == Top.exits[Len(Top.exits)]
       IN MayFail(stmt) /\ Failed(stmt)
    /\ Settle(Top, "rejected", "DriverError(rollback)", depth[Top.mgr])
    /\ UNCHANGED <<notTx, depth, log, txOpen, txCalls, writes>>

\* TransactionManager.transaction(callback) on the one manager of SpecTx
TxTransaction == Enter(1, depth[1]) /\ UNCHANGED depth

TxIdle == /\ stack = <<>> /\ log = <<>> /\ last = NoCall /\ txOpen = FALSE
          /\ txCalls = 0 /\ failures = 0 /\ writes = 0

\* new TransactionManager(connection)
TxInit == depth = <<0>> /\ TxIdle

NextTx == \/ TxTransaction \/ TxEntered \/ TxEnterFailed \/ CbWrite \/ CbResolve \/ CbReject
          \/ TxCommitted \/ TxCommitFailed \/ TxRolledBack \/ TxRollbackFailed

(***************************************************************************)
(* DatabaseManager.transaction (Database.transaction): every call, nested  *)
(* in another call's callback or not, resolves the connection of the given *)
(* name, constructs a TransactionManager over it and calls transaction()   *)
(* on the new manager.  All calls here name the same connection.           *)
(***************************************************************************)
DbTransaction ==
    /\ depth' = Append(depth, 0)
    /\ Enter(Len(depth) + 1, 0)

\* new DatabaseManager(config): no TransactionManager exists yet
DbInit == depth = <<>> /\ TxIdle

NextDb == \/ DbTransaction \/ TxEntered \/ TxEnterFailed \/ CbWrite \/ CbResolve \/ CbReject
          \/ TxCommitted \/ TxCommitFailed \/ TxRolledBack \/ TxRollbackFailed

(***************************************************************************)
(* C2-C5: TransactionManager.transaction.                                  *)
(***************************************************************************)
\* a call in progress or just finished, seen as a level of the nesting
Levels == {[level |-> stack[i].level, entry |-> stack[i].entry, exits |-> stack[i].exits] :
              i \in 1..Len(stack)}
          \cup (IF last.outcome = "none" THEN {}
                ELSE {[level |-> last.level, entry |-> last.entry, exits |-> last.exits]})

\* C2: a nested level leaves through the savepoint it created on entry (RELEASE
\* SAVEPOINT / ROLLBACK TO SAVEPOINT sp_level<k> with the k of its SAVEPOINT), and
\* BEGIN, COMMIT and ROLLBACK are sent by the outermost level only.
C2_SavepointSymmetry ==
    \A l \in Levels :
        l.level > 1 =>
            /\ l.entry.op = "SAVEPOINT"
            /\ \A i \in 1..Len(l.exits) :
                  /\ l.exits[i].op \in {"RELEASE SAVEPOINT", "ROLLBACK TO SAVEPOINT"}
                  /\ l.exits[i].level = l.entry.level

HasOp(stmts, op) == \E i \in 1..Len(stmts) : stmts[i].op = op

\* C3: when the outermost callback fails after at least one nested call of its
\* callback resolved with its savepoint released, the connection is sent ROLLBACK
\* and no COMMIT between the outermost call's first statement and its end.
C3_OuterFailureRollsBackAll ==
    (last.outcome # "none" /\ last.level = 1 /\ last.cbErr # "" /\ last.nestedOK >= 1)
        => /\ HasOp(last.stmts, "ROLLBACK")
           /\ ~HasOp(last.stmts, "COMMIT")

\* C4: a call whose callback rejected with E rejects with E, after its rollback
\* statement was sent.
C4_OriginalErrorRethrown ==
    (last.outcome # "none" /\ last.cbErr # "")
        => /\ last.outcome = "rejected"
           /\ last.err = last.cbErr
           /\ Len(last.exits) > 0
           /\ last.exits[Len(last.exits)].op \in {"ROLLBACK", "ROLLBACK TO SAVEPOINT"}

\* C5: depth is never negative, and a finished call leaves it as it found it.
C5_DepthRestored ==
    /\ \A m \in 1..Len(depth) : depth[m] >= 0
    /\ last.outcome # "none" => last.depthAfter = last.depthBefore

(***************************************************************************)
(* C8: Database.transaction inside Database.transaction.                   *)
(***************************************************************************)
\* C8: a Database.transaction call made inside the callback of another one opens
\* the savepoint sp_level1 (and leaves through it), it does not begin a second
\* transaction.
C8_NestedOpensSavepoint ==
    \A l \in Levels :
        l.level = 2 =>
            /\ l.entry = Stmt("SAVEPOINT", 1)
            /\ \A i \in 1..Len(l.exits) :
                  l.exits[i] \in {Stmt("RELEASE SAVEPOINT", 1), Stmt("ROLLBACK TO SAVEPOINT", 1)}

(***************************************************************************)
(* MySQLConnection / PostgreSQLConnection: query, beginTransaction, commit *)
(* and rollback of one connection object shared by several callers.  The   *)
(* two classes differ in the driver calls only (transactionConnection is   *)
(* transactionClient, getConnection() is connect()).  Each await is a      *)
(* point where another caller may run.                                     *)
(***************************************************************************)
Tasks == 1..NTasks
\* the physical connections of the master pool (writePool || pool)
Phys == 1..PoolSize

\* String.prototype.toLowerCase (the regular expression's i flag) on a keyword
ToLowerCase(w) ==
    CASE w = "SELECT" -> "select"
      [] w = "INSERT" -> "insert"
      [] w = "Update" -> "update"
      [] OTHER -> w

WriteKeywords == {"insert", "update", "delete", "create", "alter", "drop", "truncate", "replace"}

\* /^\s*(?:insert|update|...)/i.test(sql), sql given by its first keyword
IsWriteOperation(sql) == ToLowerCase(sql.keyword) \in WriteKeywords

\* the statements the callers send
Statements == {[keyword |-> "SELECT"], [keyword |-> "select"],
               [keyword |-> "INSERT"], [keyword |-> "Update"]}

\* what a statement is executed on: a pool or a checked-out physical connection
OnPool(name) == [kind |-> "pool", pool |-> name, conn |-> 0]
OnConnection(c) == [kind |-> "connection",
                    pool |-> IF hasWritePool THEN "writePool" ELSE "pool", conn |-> c]

NoQueryCall == [target |-> OnPool("none"), sniffed |-> FALSE, began |-> {}]

Idle(outcome, err) ==
    [pc |-> "idle", conn |-> 0, ahead |-> {}, outcome |-> outcome, err |-> err]

\* the callers whose driver call on physical connection c has not settled yet; a
\* physical connection settles its calls in the order it received them
PendingOn(c) == {u \in Tasks : task[u].pc \in {"BEGIN", "COMMIT", "ROLLBACK"} /\ task[u].conn = c}

Awaiting(pc, c) ==
    [pc |-> pc, conn |-> c, ahead |-> IF c = 0 THEN {} ELSE PendingOn(c),
     outcome |-> "pending", err |-> ""]

\* caller t's awaited call settles and t continues with record r
Settled(t, r) ==
    [u \in Tasks |-> IF u = t THEN r ELSE [task[u] EXCEPT !.ahead = @ \ {t}]]

\* query(sql, bindings) up to the execute call, which fixes where the statement runs
ConnQuery ==
    \E t \in Tasks, sql \in Statements :
        /\ task[t].pc = "idle"
        /\ lastQuery' =
              [target |-> IF transactionConnection # 0
                          THEN OnConnection(transactionConnection)
                          ELSE IF IsWriteOperation(sql) /\ hasWritePool
                               THEN OnPool("writePool") ELSE OnPool("pool"),
               sniffed |-> transactionConnection = 0,
               began |-> began]
        /\ task' = [task EXCEPT ![t] = Idle("resolved", "")]
        /\ UNCHANGED <<notConn, transactionConnection, hasWritePool, checkedOut, began>>

\* beginTransaction() up to its first await
ConnBeginTransaction ==
    \E t \in Tasks :
        /\ task[t].pc = "idle"
        /\ task' = [task EXCEPT ![t] =
                      IF transactionConnection # 0
                      THEN Idle("rejected", "Transaction already started")
                      ELSE Awaiting("getConnection", 0)]
        /\ UNCHANGED <<notConn, transactionConnection, hasWritePool, checkedOut, began, lastQuery>>

\* masterPool.getConnection() resolves: the field is assigned and BEGIN is sent
ConnGotConnection ==
    \E t \in Tasks, c \in Phys \ checkedOut :
        /\ task[t].pc = "getConnection"
        /\ transactionConnection' = c
        /\ checkedOut' = checkedOut \cup {c}
        /\ task' = [task EXCEPT ![t] = Awaiting("BEGIN", c)]
        /\ UNCHANGED <<notConn, hasWritePool, began, lastQuery>>

\* masterPool.getConnection() rejects
ConnGetConnectionFailed ==
    \E t \in Tasks :
        /\ task[t].pc = "getConnection"
        /\ task' = [task EXCEPT ![t] = Idle("rejected", "driver")]
        /\ UNCHANGED <<notConn, transactionConnection, hasWritePool, checkedOut, began, lastQuery>>

\* the physical connection's beginTransaction() resolves
ConnBegun ==
    \E t \in Tasks :
        /\ task[t].pc = "BEGIN" /\ task[t].ahead = {}
        /\ began' = began \cup {task[t].conn}
        /\ task' = Settled(t, Idle("resolved", ""))
        /\ UNCHANGED <<notConn, transactionConnection, hasWritePool, checkedOut, lastQuery>>

\* the physical connection's beginTransaction() rejects
ConnBeginFailed ==
    \E t \in Tasks :
        /\ task[t].pc = "BEGIN" /\ task[t].ahead = {}
        /\ task' = Settled(t, Idle("rejected", "driver"))
        /\ UNCHANGED <<notConn, transactionConnection, hasWritePool, checkedOut, began, lastQuery>>

\* commit() / rollback() up to the await of the driver call
Finish(pc, missing) ==
    IF transactionConnection = 0
    THEN Idle("rejected", missing)
    ELSE Awaiting(pc, transactionConnection)

ConnCommit ==
    \E t \in Tasks :
        /\ task[t].pc = "idle"
        /\ task' = [task EXCEPT ![t] = Finish("COMMIT", "No transaction to commit")]
        /\ UNCHANGED <<notConn, transactionConnection, hasWritePool, checkedOut, began, lastQuery>>

ConnRollback ==
    \E t \in Tasks :
        /\ task[t].pc = "idle"
        /\ task' = [task EXCEPT ![t] = Finish("ROLLBACK", "No transaction to rollback")]
        /\ UNCHANGED <<notConn, transactionConnection, hasWritePool, checkedOut, began, lastQuery>>

\* the driver call resolved: this.transactionConnection.release() and
\* this.transactionConnection = undefined, on the field as it is now
Release(t) ==
    IF transactionConnection = 0
    THEN /\ task' = Settled(t, Idle("rejected", "TypeError"))
         /\ UNCHANGED <<transactionConnection, checkedOut, began>>
    ELSE /\ checkedOut' = checkedOut \ {transactionConnection}
         /\ began' = began \ {transactionConnection}
         /\ transactionConnection' = 0
         /\ task' = Settled(t, Idle("resolved", ""))

ConnCommitted ==
    \E t \in Tasks :
        /\ task[t].pc = "COMMIT" /\ task[t].ahead = {}
        /\ Release(t) /\ UNCHANGED <<notConn, hasWritePool, lastQuery>>

ConnRolledBack ==
    \E t \in Tasks :
        /\ task[t].pc = "ROLLBACK" /\ task[t].ahead = {}
        /\ Release(t) /\ UNCHANGED <<notConn, hasWritePool, lastQuery>>

\* the driver's commit() or rollback() rejects
ConnFinishFailed ==
    \E t \in Tasks :
        /\ task[t].pc \in {"COMMIT", "ROLLBACK"} /\ task[t].ahead = {}
        /\ task' = Settled(t, Idle("rejected", "driver"))
        /\ UNCHANGED <<notConn, transactionConnection, hasWritePool, checkedOut, began, lastQuery>>

\* new MySQLConnection(config): no transaction, nothing checked out
ConnIdle ==
    /\ transactionConnection = 0
    /\ checkedOut = {}
    /\ began = {}
    /\ task = [t \in Tasks |-> Idle("none", "")]
    /\ lastQuery = NoQueryCall

ConnInit == hasWritePool \in BOOLEAN /\ ConnIdle
\* a connection without config.write, for the components that do not use the pools
ConnNew == hasWritePool = FALSE /\ ConnIdle

NextConn == \/ ConnQuery \/ ConnBeginTransaction \/ ConnGotConnection
            \/ ConnGetConnectionFailed \/ ConnBegun \/ ConnBeginFailed
            \/ ConnCommit \/ ConnRollback \/ ConnCommitted \/ ConnRolledBack
            \/ ConnFinishFailed

(***************************************************************************)
(* C6, C7: the transaction connection of a pooled connection.              *)
(***************************************************************************)
\* C6: a query() made while a transaction has begun and not finished runs on the
\* one physical connection checked out by that beginTransaction, without the
\* prefix sniff, and that connection stays checked out as the transaction
\* connection until the commit or rollback that releases it.
C6_PinnedToTransactionConnection ==
    /\ lastQuery.began # {} =>
          /\ ~lastQuery.sniffed
          /\ lastQuery.target.kind = "connection"
          /\ lastQuery.began = {lastQuery.target.conn}
          /\ lastQuery.target.pool = (IF hasWritePool THEN "writePool" ELSE "pool")
    /\ \A c \in began : c \in checkedOut /\ transactionConnection = c

\* C7: at most one beginTransaction() is past the 'Transaction already started'
\* guard at a time, and at most one physical connection is checked out.
C7_SingleTransactionConnection ==
    /\ Cardinality({t \in Tasks : task[t].pc \in {"getConnection", "BEGIN"}}) <= 1
    /\ Cardinality(checkedOut) <= 1

(***************************************************************************)
(* Model: one instance of a model class without casts, mutators or         *)
(* observers, saved through Database.table(...).insert / .update over the   *)
(* connection of the configured driver.                                    *)
(***************************************************************************)
\* clock ticks in a second
TicksPerSecond == 2
\* AUTO_INCREMENT / SERIAL / rowid values
GeneratedIds == 1..MaxId

Keys == {"id", "name", "created_at", "updated_at"}
\* the primary key (static primaryKey = 'id')
PrimaryKey == "id"

\* JavaScript truthiness of a value
Truthy(v) == ~ \/ v.t \in {"undefined", "null"}
               \/ v.t = "number" /\ v.n = 0
               \/ v.t = "string" /\ v.s = "" /\ v.n = 0

\* the text of a formatted date: its layout and the instant it spells out
DateString(layout, instant) == [t |-> "string", s |-> layout, n |-> instant]

\* formatDate(date): toISOString() keeps the milliseconds, the local layout
\* 'YYYY-MM-DD HH:mm:ss' ends at the seconds
formatDate(date) ==
    IF serializeDateAsUtc THEN DateString("iso", date)
    ELSE DateString("local", date \div TicksPerSecond)

\* setAttribute(key, value) of a Date: castAttributeForSave formats it
SetDate(attrs, key, date) == [attrs EXCEPT ![key] = formatDate(date)]

\* updateTimestamps() at instant `date`
updateTimestamps(attrs, date) ==
    IF ~timestamps THEN attrs
    ELSE LET a == SetDate(attrs, "updated_at", date)
         IN IF ~exists /\ ~Truthy(a["created_at"]) THEN SetDate(a, "created_at", date) ELSE a

\* getDirty(), as the set of its keys
getDirty(attrs, orig) == {k \in Keys : orig[k] # attrs[k]}

\* what connection.query() resolves with for an INSERT that generated `id`:
\* mysql2's result header, pg's result.rows (empty without RETURNING), and
\* SQLiteConnection's [{affectedRows, insertId}]
InsertResult(id) ==
    CASE driver = "mysql" -> [shape |-> "object", rows |-> <<>>, insertId |-> Num(id)]
      [] driver = "pgsql" -> [shape |-> "array", rows |-> <<>>, insertId |-> Undef]
      [] OTHER -> [shape |-> "array", rows |-> <<[affectedRows |-> 1, insertId |-> Num(id)]>>,
                   insertId |-> Undef]

\* result.insertId: an array has no such property
InsertIdOf(result) == IF result.shape = "object" THEN result.insertId ELSE Undef

NoSave == [kind |-> "none", outcome |-> "none", sent |-> <<>>, afterSave |-> FALSE,
           touched |-> FALSE, idBefore |-> Undef, generated |-> 0, idAfter |-> Undef,
           existsAfter |-> FALSE, dirtyAfter |-> {}]

\* the record of a finished save() call
Saved(kind, outcome, sent, generated, attrs, orig, ex) ==
    [kind |-> kind, outcome |-> outcome, sent |-> sent,
     afterSave |-> lastSave.outcome = "true" /\ lastSave.kind # "delete", touched |-> touched,
     idBefore |-> attributes[PrimaryKey], generated |-> generated,
     idAfter |-> attrs[PrimaryKey], existsAfter |-> ex, dirtyAfter |-> getDirty(attrs, orig)]

\* the caller sets an attribute
MSetAttribute ==
    \E v \in {Str("a"), Str("b")} :
        /\ attributes' = [attributes EXCEPT !["name"] = v]
        /\ touched' = TRUE
        /\ UNCHANGED <<notModel, original, exists, timestamps, serializeDateAsUtc, driver,
                       now, lastSave, observers, lastHooks>>

\* time passes
MTick ==
    /\ now < MaxTime
    /\ now' = now + 1
    /\ UNCHANGED <<notModel, attributes, original, exists, timestamps, serializeDateAsUtc,
                   driver, touched, lastSave, observers, lastHooks>>

\* save() of a model with exists = true, the UPDATE (if any) succeeding or not
SaveExisting(ok) ==
    /\ IF ~Truthy(attributes[PrimaryKey])
       THEN /\ lastSave' = Saved("update", "Cannot update model without primary key value",
                                 <<>>, 0, attributes, original, exists)
            /\ UNCHANGED <<attributes, original, touched>>
       ELSE LET a == updateTimestamps(attributes, now)
                dirty == getDirty(a, original)
            IN /\ attributes' = a
               /\ IF dirty = {}
                  THEN /\ lastSave' = Saved("update", "true", <<>>, 0, a, original, exists)
                       /\ touched' = FALSE
                       /\ UNCHANGED original
                  ELSE IF ok
                  THEN /\ original' = a
                       /\ lastSave' = Saved("update", "true", <<[op |-> "UPDATE", columns |-> dirty]>>,
                                            0, a, a, exists)
                       /\ touched' = FALSE
                  ELSE /\ lastSave' = Saved("update", "DriverError",
                                            <<[op |-> "UPDATE", columns |-> dirty]>>,
                                            0, a, original, exists)
                       /\ UNCHANGED <<original, touched>>
    /\ UNCHANGED <<notModel, exists, timestamps, serializeDateAsUtc, driver, now, observers>>

\* the columns of the INSERT: Object.keys of the attributes after updateTimestamps()
InsertColumns == {k \in Keys : updateTimestamps(attributes, now)[k] # Undef}

\* save() of a model with exists = false, the INSERT succeeding or not
SaveNew(ok) ==
    /\ LET a == updateTimestamps(attributes, now)
           stmt == [op |-> "INSERT", columns |-> InsertColumns]
       IN IF ok
          THEN \E id \in GeneratedIds :
                  LET result == InsertResult(id)
                      b == IF Truthy(InsertIdOf(result)) /\ ~Truthy(a[PrimaryKey])
                           THEN [a EXCEPT ![PrimaryKey] = InsertIdOf(result)] ELSE a
                  IN /\ attributes' = b
                     /\ original' = b
                     /\ exists' = TRUE
                     /\ touched' = FALSE
                     /\ lastSave' = Saved("insert", "true", <<stmt>>, id, b, b, TRUE)
          ELSE /\ attributes' = a
               /\ lastSave' = Saved("insert", "DriverError", <<stmt>>, 0, a, original, FALSE)
               /\ UNCHANGED <<original, exists, touched>>
    /\ UNCHANGED <<notModel, timestamps, serializeDateAsUtc, driver, now, observers>>

\* the update branch reaches query.update(dirty)
SendsUpdate ==
    /\ Truthy(attributes[PrimaryKey])
    /\ getDirty(updateTimestamps(attributes, now), original) # {}

(***************************************************************************)
(* ObserverRegistry.fire and the hooks of save() and delete().  A handler  *)
(* is given by what it returns; it does not touch the model.               *)
(***************************************************************************)
Events == {"saving", "creating", "updating", "created", "updated", "saved",
           "deleting", "deleted"}

\* an observer: for each event "none" (no handler), "void" (a handler that
\* returns undefined) or "false" (a handler that returns false)
Observer(falseOn, voidOn) ==
    [e \in Events |-> IF e \in falseOn THEN "false" ELSE IF e \in voidOn THEN "void" ELSE "none"]

ObserverKinds ==
    {Observer({"saving"}, {}), Observer({"creating"}, {"saving"}),
     Observer({"updating"}, {"saved"}), Observer({"deleting"}, {"deleted"}),
     Observer({}, Events)}

\* result === false
NeverCancels(result) == FALSE
Cancels(result) == result = "false"

\* the loop of fire(modelName, event, model) from the i-th observer on: the
\* handlers it invokes, in order, and its return value
RECURSIVE FireFrom(_, _)
FireFrom(event, i) ==
    IF i > Len(observers) THEN [calls |-> <<>>, result |-> TRUE]
    ELSE LET handler == observers[i][event]
             call == <<[observer |-> i, event |-> event]>>
         IN IF handler = "none" THEN FireFrom(event, i + 1)
            ELSE IF Cancels(handler) THEN [calls |-> call, result |-> FALSE]
            ELSE LET rest == FireFrom(event, i + 1)
                 IN [calls |-> call \o rest.calls, result |-> rest.result]

fire(event) == FireFrom(event, 1)

\* the two hooks save() fires first; the second only if the first did not cancel
FireBoth(first, second) ==
    LET f == fire(first)
    IN IF ~f.result THEN f
       ELSE [calls |-> f.calls \o fire(second).calls, result |-> fire(second).result]

ModelState(a, o, e) == [attributes |-> a, original |-> o, exists |-> e]

NoHooks == [fired |-> <<>>, before |-> ModelState(<<>>, <<>>, FALSE),
            after |-> ModelState(<<>>, <<>>, FALSE)]

\* the hooks a finished call invoked and the model around it
Hooks(fired) ==
    lastHooks' = [fired |-> fired, before |-> ModelState(attributes, original, exists),
                  after |-> ModelState(attributes', original', exists')]

\* `return false` after a hook cancelled (or delete() of a model that does not exist)
ReturnFalse(kind, fired) ==
    /\ lastSave' = Saved(kind, "false", <<>>, 0, attributes, original, exists)
    /\ UNCHANGED <<notModel, attributes, original, exists, timestamps, serializeDateAsUtc,
                   driver, now, touched, observers>>
    /\ Hooks(fired)

\* save() with exists = true: saving, updating, the update branch, updated, saved
SaveWithHooks(ok) ==
    LET pre == FireBoth("saving", "updating")
    IN IF ~pre.result THEN ReturnFalse("update", pre.calls)
       ELSE /\ SaveExisting(ok)
            /\ Hooks(IF lastSave'.outcome = "true" /\ lastSave'.sent # <<>>
                     THEN pre.calls \o fire("updated").calls \o fire("saved").calls
                     ELSE pre.calls)

\* save() with exists = false: saving, creating, the insert branch, created, saved
CreateWithHooks(ok) ==
    LET pre == FireBoth("saving", "creating")
    IN IF ~pre.result THEN ReturnFalse("insert", pre.calls)
       ELSE /\ SaveNew(ok)
            /\ Hooks(IF ok THEN pre.calls \o fire("created").calls \o fire("saved").calls
                     ELSE pre.calls)

\* save() is not cancelled by an observer
SavePasses(second) == FireBoth("saving", second).result

MSave == exists /\ SaveWithHooks(TRUE)
MSaveFailed == exists /\ SavePasses("updating") /\ SendsUpdate /\ SaveWithHooks(FALSE)
\* the database accepts an INSERT that names a column
MCreate == ~exists /\ (SavePasses("creating") => InsertColumns # {}) /\ CreateWithHooks(TRUE)
MCreateFailed == ~exists /\ SavePasses("creating") /\ CreateWithHooks(FALSE)

\* delete(): the DELETE (if it gets that far) succeeding or not
Delete(ok) ==
    IF ~exists THEN ReturnFalse("delete", <<>>)
    ELSE IF ~Truthy(attributes[PrimaryKey])
    THEN /\ lastSave' = Saved("delete", "Cannot delete model without primary key value",
                              <<>>, 0, attributes, original, exists)
         /\ UNCHANGED <<notModel, attributes, original, exists, timestamps,
                        serializeDateAsUtc, driver, now, touched, observers>>
         /\ Hooks(<<>>)
    ELSE LET pre == fire("deleting")
             stmt == [op |-> "DELETE", columns |-> {PrimaryKey}]
         IN IF ~pre.result THEN ReturnFalse("delete", pre.calls)
            ELSE /\ exists' = ~ok
                 /\ lastSave' = Saved("delete", IF ok THEN "true" ELSE "DriverError", <<stmt>>,
                                      0, attributes, original, ~ok)
                 /\ UNCHANGED <<notModel, attributes, original, timestamps,
                                serializeDateAsUtc, driver, now, touched, observers>>
                 /\ Hooks(IF ok THEN pre.calls \o fire("deleted").calls ELSE pre.calls)

\* delete() reaches query.delete()
SendsDelete == exists /\ Truthy(attributes[PrimaryKey]) /\ fire("deleting").result

MDelete == /\ Delete(TRUE)
MDeleteFailed == SendsDelete /\ Delete(FALSE)

\* new M(): nothing set, nothing saved
ModelIdle ==
    /\ attributes = [k \in Keys |-> Undef]
    /\ original = [k \in Keys |-> Undef]
    /\ exists = FALSE
    /\ now = 0
    /\ touched = FALSE
    /\ lastSave = NoSave
    /\ lastHooks = NoHooks

\* the lists of at most MaxObservers observers
RECURSIVE ObserverLists(_)
ObserverLists(n) ==
    IF n = 0 THEN {<<>>}
    ELSE ObserverLists(n - 1)
         \cup {Append(l, o) : l \in {m \in ObserverLists(n - 1) : Len(m) = n - 1},
                              o \in ObserverKinds}

\* the model class's static policy and the driver of its connection
ModelInit ==
    /\ timestamps \in BOOLEAN
    /\ serializeDateAsUtc \in BOOLEAN
    /\ driver \in {"mysql", "pgsql", "sqlite"}
    /\ observers = <<>>
    /\ ModelIdle

\* the defaults (static timestamps = true, serializeDateAsUtc = false)
ModelNew ==
    /\ timestamps = TRUE
    /\ serializeDateAsUtc = FALSE
    /\ driver = "mysql"
    /\ observers = <<>>
    /\ ModelIdle

\* a model class of the default policy with observers registered
ObservedInit ==
    /\ timestamps = TRUE
    /\ serializeDateAsUtc = FALSE
    /\ driver = "mysql"
    /\ observers \in ObserverLists(MaxObservers)
    /\ ModelIdle

NextModel == \/ MSetAttribute \/ MTick \/ MSave \/ MSaveFailed \/ MCreate \/ MCreateFailed
             \/ MDelete \/ MDeleteFailed

(***************************************************************************)
(* C9, C10: Model.save().                                                  *)
(***************************************************************************)
\* C9: a save() that follows a successful save() with no attribute set by the
\* caller in between sends nothing to the connection, whatever time has passed
\* and whatever the timestamps policy.
C9_SecondSaveSendsNothing ==
    (lastSave.outcome # "none" /\ lastSave.afterSave /\ ~lastSave.touched)
        => lastSave.sent = <<>>

\* C10: the first successful save() of a model without a primary-key value sends
\* one INSERT, sets exists, stores the generated id in the primary-key attribute
\* and leaves nothing dirty, for every driver's result shape.
C10_InsertStoresGeneratedId ==
    (lastSave.kind = "insert" /\ lastSave.outcome = "true" /\ ~Truthy(lastSave.idBefore))
        => /\ Len(lastSave.sent) = 1 /\ lastSave.sent[1].op = "INSERT"
           /\ lastSave.existsAfter
           /\ lastSave.idAfter = Num(lastSave.generated)
           /\ lastSave.dirtyAfter = {}

(***************************************************************************)
(* Running a compiled SELECT: a table whose rows are numbered 1..nRows in  *)
(* its (stable) row order, row i having id = i.  A row is kept when the    *)
(* WHERE clause holds for it; AND binds tighter than OR.                    *)
(***************************************************************************)
\* `${n}` and back (Number(s), the database's coercion of a numeric string)
Numerals == <<"0", "1", "2", "3", "4", "5", "6", "7", "8", "9", "10", "11", "12">>
NumberToString(n) == IF n + 1 \in DOMAIN Numerals THEN Numerals[n + 1] ELSE "NaN"
ParseNumber(s) == IF \E i \in DOMAIN Numerals : Numerals[i] = s
                  THEN (CHOOSE i \in DOMAIN Numerals : Numerals[i] = s) - 1
                  ELSE 0
ToNumber(v) == IF v.t = "number" THEN v.n ELSE ParseNumber(v.s)

\* the rows of the table, in row order
TableRows(n) == [i \in 1..n |-> [id |-> i]]

Compare(a, op, b) ==
    CASE op = ">" -> a > b
      [] op = ">=" -> a >= b
      [] op = "<" -> a < b
      [] op = "<=" -> a <= b
      [] op = "=" -> a = b
      [] OTHER -> a # b

\* a column that holds SQL NULL (the columns of the model hold naturals otherwise)
NullCell == 0 - 1

\* does the row satisfy one clause
ClauseHolds(w, row) ==
    CASE w.type = "basic" -> Compare(row[w.column[1]], JSToString(w.operator), ToNumber(w.value[1]))
      [] w.type = "in" -> \E i \in 1..Len(w.value) : row[w.column[1]] = ToNumber(w.value[i])
      [] w.type = "notIn" -> \A i \in 1..Len(w.value) : row[w.column[1]] # ToNumber(w.value[i])
      [] w.type = "null" -> row[w.column[1]] = NullCell
      [] w.type = "notNull" -> row[w.column[1]] # NullCell
      [] OTHER -> TRUE

\* c1 AND c2 OR c3 ...: some maximal OR-free run of clauses holds entirely
WhereHolds(clauses, row) ==
    clauses = <<>> \/
    \E i \in 1..Len(clauses) :
        /\ i = 1 \/ clauses[i].boolean = "or"
        /\ \A j \in i..Len(clauses) :
              (\A k \in (i + 1)..j : clauses[k].boolean = "and") => ClauseHolds(clauses[j], row)

\* the rows of `rows` the predicate keeps, in order
RECURSIVE Filter(_, _)
Filter(rows, clauses) ==
    IF rows = <<>> THEN <<>>
    ELSE (IF WhereHolds(clauses, Head(rows)) THEN <<Head(rows)>> ELSE <<>>)
         \o Filter(Tail(rows), clauses)

\* OFFSET o LIMIT l on a row sequence
Slice(rows, o, l) ==
    LET from == o + 1
        to == IF from + l - 1 < Len(rows) THEN from + l - 1 ELSE Len(rows)
    IN IF from > Len(rows) THEN <<>> ELSE SubSeq(rows, from, to)

\* connection.query of the SELECT that builder q compiles to, on a table of n rows
\* (the model's ORDER BY is by ascending id, which is the row order)
RunSelect(q, n) ==
    LET kept == Filter(TableRows(n), q.whereClauses)
        o == IF q.offsetValue = Undef THEN 0 ELSE q.offsetValue.n
        l == IF q.limitValue = Undef THEN Len(kept) ELSE q.limitValue.n
    IN Slice(kept, o, l)

\* connection.query of SELECT COUNT(*) as count: [{count}]
RunCount(q, n) == <<[count |-> Num(Len(Filter(TableRows(n), q.whereClauses)))]>>

Ids(rows) == [i \in 1..Len(rows) |-> rows[i].id]

\* Database.table('users'): a fresh builder
FreshBuilder == table(NewQueryBuilder, "users")

(***************************************************************************)
(* QueryBuilder.chunk, cursorPaginate and paginate, one call (or one walk  *)
(* over the cursor links) per behaviour, on a table that does not change.  *)
(***************************************************************************)
NoChunk == [pc |-> "idle", count |-> 0, page |-> 0, results |-> <<>>, fetched |-> <<>>,
            calls |-> <<>>, returned |-> "none"]
NoWalk == [pc |-> "idle", perPage |-> 0, cursor |-> Null, pages |-> <<>>]
NoPage == [pc |-> "idle", page |-> 0, perPage |-> 0, total |-> 0, lastPage |-> 0,
           from |-> Null, to |-> Null, prev |-> Null, next |-> Null, data |-> <<>>]

PagingIdle == chunk = NoChunk /\ walk = NoWalk /\ paged = NoPage

\* chunk: the offset of a page
PageTimesCount(page, count) == page * count
ChunkOffset(page, count) == (page - 1) * count

\* chunk: `results.length < count`
NeverShort(results, count) == FALSE
ShortPage(results, count) == Len(results) < count

\* chunk(count, callback) up to the first await
ChunkCall ==
    \E count \in 1..MaxCount :
        /\ PagingIdle
        /\ chunk' = [NoChunk EXCEPT !.pc = "fetch", !.count = count, !.page = 1]
        /\ UNCHANGED <<notPaging, nRows, walk, paged>>

\* lines 377-386: the clone with limit and offset is run; an empty page ends the loop
ChunkFetch ==
    /\ chunk.pc = "fetch"
    /\ LET chunkQuery == offset(limit(FreshBuilder, chunk.count),
                                ChunkOffset(chunk.page, chunk.count))
           results == RunSelect(chunkQuery, nRows)
       IN chunk' = [chunk EXCEPT !.results = results,
                                 !.fetched = Append(@, Ids(results)),
                                 !.pc = IF Len(results) = 0 THEN "done" ELSE "callback",
                                 !.returned = IF Len(results) = 0 THEN "true" ELSE @]
    /\ UNCHANGED <<notPaging, nRows, walk, paged>>

\* lines 388-399: the callback returns r; false ends the call, a short page the loop
ChunkCallback ==
    \E r \in {"void", "true", "false"} :
        /\ chunk.pc = "callback"
        /\ LET called == [chunk EXCEPT !.calls = Append(@, [rows |-> Ids(chunk.results),
                                                            page |-> chunk.page,
                                                            returned |-> r])]
           IN chunk' = IF r = "false"
                       THEN [called EXCEPT !.pc = "done", !.returned = "false"]
                       ELSE IF ShortPage(chunk.results, chunk.count)
                       THEN [called EXCEPT !.pc = "done", !.returned = "true"]
                       ELSE [called EXCEPT !.pc = "fetch", !.page = @ + 1]
        /\ UNCHANGED <<notPaging, nRows, walk, paged>>

\* cursorPaginate: the rows fetched to see whether more remain
PerPageOnly(perPage) == perPage
FetchLimit(perPage) == perPage + 1

\* cursorPaginate(cursor, perPage, 'id', path) on a fresh builder
cursorPaginate(cursor, perPage, n) ==
    LET q0 == IF Truthy(cursor) THEN where(FreshBuilder, "id", Str(">"), cursor)
              ELSE FreshBuilder
        q == limit(orderBy(q0, "id", "asc"), FetchLimit(perPage))
        fetched == RunSelect(q, n)
        hasMore == Len(fetched) > perPage
        data == IF hasMore THEN SubSeq(fetched, 1, Len(fetched) - 1) ELSE fetched
        nextCursor == IF hasMore /\ Len(data) > 0 THEN Num(data[Len(data)].id) ELSE Null
    IN [data |-> Ids(data), has_more |-> hasMore,
        next_page_url |-> IF Truthy(nextCursor)
                          THEN Str(NumberToString(nextCursor.n)) ELSE Null]

\* the first page: cursor = null
WalkStart ==
    \E perPage \in 1..MaxCount :
        /\ PagingIdle
        /\ walk' = [NoWalk EXCEPT !.pc = "walking", !.perPage = perPage]
        /\ UNCHANGED <<notPaging, nRows, chunk, paged>>

\* one page; the cursor of its next link (a string taken from the URL) is fed back
WalkPage ==
    /\ walk.pc = "walking"
    /\ LET p == cursorPaginate(walk.cursor, walk.perPage, nRows)
       IN walk' = [walk EXCEPT !.pages = Append(@, [data |-> p.data, next |-> p.next_page_url]),
                               !.cursor = p.next_page_url,
                               !.pc = IF p.next_page_url = Null THEN "done" ELSE "walking"]
    /\ UNCHANGED <<notPaging, nRows, chunk, paged>>

\* parseInt(result[0].count)
parseInt(v) == ToNumber(v)

\* Math.ceil(a / b) for b > 0
Ceil(a, b) == (a + b - 1) \div b

Min(a, b) == IF a < b THEN a ELSE b

\* paginate(page, perPage, path) on a fresh builder; a link is given by its page number
Paginate ==
    \E page \in 1..MaxPage, perPage \in 1..MaxCount :
        /\ PagingIdle
        /\ LET total == parseInt(RunCount(FreshBuilder, nRows)[1].count)
               off == (page - 1) * perPage
               data == RunSelect(offset(limit(FreshBuilder, perPage), off), nRows)
               lastPage == Ceil(total, perPage)
           IN paged' = [pc |-> "done", page |-> page, perPage |-> perPage, total |-> total,
                        lastPage |-> lastPage,
                        from |-> IF total > 0 THEN Num(off + 1) ELSE Null,
                        to |-> IF total > 0 THEN Num(Min(off + perPage, total)) ELSE Null,
                        prev |-> IF page > 1 THEN Num(page - 1) ELSE Null,
                        next |-> IF page < lastPage THEN Num(page + 1) ELSE Null,
                        data |-> Ids(data)]
        /\ UNCHANGED <<notPaging, nRows, chunk, walk>>

\* a table of up to MaxRows rows
PagingInit == nRows \in 0..MaxRows /\ PagingIdle
\* the other components run on an empty table
PagingNew == nRows = 0 /\ PagingIdle

NextPaging == \/ ChunkCall \/ ChunkFetch \/ ChunkCallback \/ WalkStart \/ WalkPage \/ Paginate

(***************************************************************************)
(* C11: an observer cancels save() or delete().                            *)
(***************************************************************************)
CancellingEvents == {"saving", "creating", "updating", "deleting"}

\* the positions in the last call's hook invocations where a saving, creating,
\* updating or deleting handler returned false
Cancelled ==
    {j \in 1..Len(lastHooks.fired) :
        /\ lastHooks.fired[j].event \in CancellingEvents
        /\ observers[lastHooks.fired[j].observer][lastHooks.fired[j].event] = "false"}

\* C11: when a saving, creating, updating or deleting handler returned false, the
\* call returned false without throwing and sent nothing, the model's exists,
\* attributes and original are as before the call, and that handler was the last
\* one invoked (no remaining observer of the hook, no later hook).
C11_ObserverCancels ==
    Cancelled # {} =>
        /\ lastSave.outcome = "false"
        /\ lastSave.sent = <<>>
        /\ lastHooks.after = lastHooks.before
        /\ Cancelled = {Len(lastHooks.fired)}

\* a handler cancelled although a later observer has a handler for the same hook,
\* on a model with an unsaved attribute
C11_Witness ==
    /\ Cancelled # {}
    /\ \E j \in Cancelled :
          \E i \in 1..Len(observers) :
              /\ i > lastHooks.fired[j].observer
              /\ observers[i][lastHooks.fired[j].event] # "none"
    /\ lastHooks.before.attributes["name"] # lastHooks.before.original["name"]

(***************************************************************************)
(* C12, C13: QueryBuilder.chunk.                                           *)
(***************************************************************************)
\* no callback invocation of the chunk() call returned false
NoFalse == \A k \in 1..Len(chunk.calls) : chunk.calls[k].returned # "false"

\* rows (k-1)*n+1 .. min(k*n, total), as row numbers
PageRows(k, n, total) == [i \in 1..(Min(k * n, total) - (k - 1) * n) |-> (k - 1) * n + i]

StopPages == {k \in 1..Len(chunk.fetched) : Len(chunk.fetched[k]) < chunk.count}

RECURSIVE SeenBefore(_)
SeenBefore(k) == IF k <= 1 THEN 0 ELSE SeenBefore(k - 1) + Len(walk.pages[k - 1].data)

\* C14: page k holds the next min(perPage, remaining) rows in ascending order; its
\* next cursor is the id of its last row, and is null exactly when no row remains.
C14_CursorVisitsEachRowOnce ==
    \A k \in 1..Len(walk.pages) :
        LET seen == SeenBefore(k)
            size == Min(walk.perPage, nRows - seen)
            page == walk.pages[k]
        IN /\ page.data = [i \in 1..size |-> seen + i]
           /\ page.next = (IF seen + size < nRows
                           THEN Str(NumberToString(seen + size)) ELSE Null)
           /\ (walk.pc = "done" /\ k = Len(walk.pages)) => seen + size = nRows

\* a finished walk of three pages or more whose last page is short
C14_Witness ==
    /\ walk.pc = "done"
    /\ Len(walk.pages) >= 3
    /\ Len(walk.pages[Len(walk.pages)].data) \in 1..(walk.perPage - 1)

(***************************************************************************)
(* C15: paginate.                                                          *)
(***************************************************************************)
\* C15: last_page is ceil(total/perPage), from and to are null exactly when total
\* is 0, and the pages named by the prev and next links lie within 1..last_page.
C15_PaginateLinksInRange ==
    paged.pc = "done" =>
        /\ paged.lastPage * paged.perPage >= paged.total
        /\ (paged.lastPage - 1) * paged.perPage < paged.total
        /\ (paged.from = Null) = (paged.total = 0)
        /\ (paged.to = Null) = (paged.total = 0)
        /\ paged.prev # Null => paged.prev.n \in 1..paged.lastPage
        /\ paged.next # Null => paged.next.n \in 1..paged.lastPage

(***************************************************************************)
(* BelongsToMany: attach, detach and sync of one parent over a pivot table *)
(* without a unique key, on a driver that returns an integer column as a   *)
(* number (mysql2, better-sqlite3).  pivot[i] is the number of the         *)
(* parent's pivot rows whose related key is i.  An id passed by the caller *)
(* is a JavaScript value; the database stores it, and compares it, as the  *)
(* integer it denotes.                                                     *)
(***************************************************************************)
RelatedIds == 1..MaxRelated
IdValues == {Num(i) : i \in RelatedIds} \cup {Str(NumberToString(i)) : i \in RelatedIds}

RECURSIVE IdLists(_)
IdLists(n) == IF n = 0 THEN {<<>>}
              ELSE IdLists(n - 1) \cup
                   {Append(l, v) : l \in {x \in IdLists(n - 1) : Len(x) = n - 1}, v \in IdValues}

NoPivotRows == [i \in RelatedIds |-> 0]

\* the ids the SELECT of sync() returns: existing.map(row => row[relatedPivotKey])
existingIds(p) == {Num(i) : i \in {j \in RelatedIds : p[j] > 0}}

Includes(list, v) == \E k \in DOMAIN list : list[k] = v

\* one INSERT per id of the list
RECURSIVE attach(_, _)
attach(p, idList) ==
    IF idList = <<>> THEN p
    ELSE attach([p EXCEPT ![ToNumber(Head(idList))] = @ + 1], Tail(idList))

\* DELETE ... WHERE foreignPivotKey = ? AND relatedPivotKey IN (...)
detach(p, idSet) ==
    [i \in RelatedIds |-> IF \E v \in idSet : ToNumber(v) = i THEN 0 ELSE p[i]]

\* DELETE ... WHERE foreignPivotKey = ?
detachAll(p) == NoPivotRows

toAttach(p, ids) == SelectSeq(ids, LAMBDA id : id \notin existingIds(p))
toDetach(p, ids) == {id \in existingIds(p) : ~Includes(ids, id)}

sync(p, ids) ==
    LET afterAttach == IF toAttach(p, ids) # <<>> THEN attach(p, toAttach(p, ids)) ELSE p
    IN  IF toDetach(p, ids) # {} THEN detach(afterAttach, toDetach(p, ids)) ELSE afterAttach

NoSync == [called |-> FALSE, ids |-> <<>>, before |-> NoPivotRows,
           attached |-> <<>>, detached |-> {}]

InBounds(p) == \A i \in RelatedIds : p[i] <= MaxCopies

PivotAttach ==
    /\ \E ids \in IdLists(MaxIds) :
          /\ InBounds(attach(pivot, ids))
          /\ pivot' = attach(pivot, ids)
    /\ lastSync' = NoSync
    /\ UNCHANGED notPivot

PivotDetach ==
    /\ \E ids \in IdLists(MaxIds) : pivot' = detach(pivot, {ids[k] : k \in DOMAIN ids})
    /\ lastSync' = NoSync
    /\ UNCHANGED notPivot

PivotDetachAll ==
    /\ pivot' = detachAll(pivot)
    /\ lastSync' = NoSync
    /\ UNCHANGED notPivot

PivotSync ==
    /\ \E ids \in IdLists(MaxIds) :
          /\ InBounds(attach(pivot, toAttach(pivot, ids)))
          /\ pivot' = sync(pivot, ids)
          /\ lastSync' = [called |-> TRUE, ids |-> ids, before |-> pivot,
                          attached |-> toAttach(pivot, ids),
                          detached |-> toDetach(pivot, ids)]
    /\ UNCHANGED notPivot

PivotNew == pivot = NoPivotRows /\ lastSync = NoSync
PivotInit == PivotNew
NextPivot == \/ PivotAttach \/ PivotDetach \/ PivotDetachAll \/ PivotSync

(***************************************************************************)
(* C16: BelongsToMany.sync.                                                *)
(***************************************************************************)
Stored(p) == {i \in RelatedIds : p[i] > 0}
Requested(ids) == {ToNumber(ids[k]) : k \in DOMAIN ids}

\* C16: after sync(ids) the related ids stored for the parent are exactly
\* the requested ids: the requested ids that were absent were inserted, the
\* stored ids that were not requested were deleted, and the rows of an id
\* that is both stored and requested were neither deleted nor inserted again.
C16_SyncStoresRequested ==
    lastSync.called =>
        /\ Stored(pivot) = Requested(lastSync.ids)
        /\ Requested(lastSync.attached) = Requested(lastSync.ids) \ Stored(lastSync.before)
        /\ {ToNumber(v) : v \in lastSync.detached}
              = Stored(lastSync.before) \ Requested(lastSync.ids)
        /\ \A i \in Stored(lastSync.before) \cap Requested(lastSync.ids) :
              pivot[i] = lastSync.before[i]

(***************************************************************************)
(* QueryBuilder.update and delete over the connection of each driver.  The *)
(* table holds the rows whose ids are in tableIds.                         *)
(***************************************************************************)
Drivers == {"mysql", "pgsql", "sqlite"}

\* what Connection.query resolves to for an UPDATE or DELETE that affected k rows,
\* as the properties update() / delete() read from it and its elements if it is an array:
\*   MySQLConnection: `rows` of execute(), the ResultSetHeader
\*   PostgreSQLConnection: result.rows, an array (empty without RETURNING)
\*   SQLiteConnection: [{ affectedRows: info.changes, insertId }]
WriteResult(d, k) ==
    CASE d = "mysql" -> [affectedRows |-> Num(k), rowCount |-> Undef, elements |-> <<>>]
      [] d = "pgsql" -> [affectedRows |-> Undef, rowCount |-> Undef, elements |-> <<>>]
      [] OTHER -> [affectedRows |-> Undef, rowCount |-> Undef,
                   elements |-> <<[affectedRows |-> Num(k)]>>]

\* result.affectedRows || result.rowCount || 0
AffectedRows(result) ==
    IF Truthy(result.affectedRows) THEN result.affectedRows
    ELSE IF Truthy(result.rowCount) THEN result.rowCount
    ELSE Num(0)

\* the rows of the table the builder's WHERE state selects
Matching(q, ids) == {i \in ids : WhereHolds(q.whereClauses, [id |-> i])}

\* the builders update() / delete() are called on
WriteBuilders ==
    {FreshBuilder}
    \cup {where(FreshBuilder, "id", Str(op), Num(k)) : op \in {"=", ">"}, k \in 1..MaxTableRows}

NoWrite == [kind |-> "none", q |-> FreshBuilder, affected |-> 0, returned |-> Undef]

QBUpdate ==
    /\ \E q \in WriteBuilders :
          lastWrite' = [kind |-> "update", q |-> q,
                        affected |-> Cardinality(Matching(q, tableIds)),
                        returned |-> AffectedRows(WriteResult(writeDriver,
                                         Cardinality(Matching(q, tableIds))))]
    /\ UNCHANGED <<writeDriver, tableIds>>
    /\ UNCHANGED notWrite

QBDelete ==
    /\ \E q \in WriteBuilders :
          /\ lastWrite' = [kind |-> "delete", q |-> q,
                           affected |-> Cardinality(Matching(q, tableIds)),
                           returned |-> AffectedRows(WriteResult(writeDriver,
                                            Cardinality(Matching(q, tableIds))))]
          /\ tableIds' = tableIds \ Matching(q, tableIds)
    /\ UNCHANGED writeDriver
    /\ UNCHANGED notWrite

WriteIdle == tableIds = 1..MaxTableRows /\ lastWrite = NoWrite
WriteNew == writeDriver = "mysql" /\ WriteIdle
WriteInit == writeDriver \in Drivers /\ WriteIdle
NextWrite == \/ QBUpdate \/ QBDelete

(***************************************************************************)
(* C17: what update() and delete() return.                                 *)
(***************************************************************************)
\* C17: update(data) and delete() return the number of rows the statement
\* affected under the builder's WHERE state, on the connection of every
\* driver (so they return 0 only when no row was affected).
C17_ReturnsAffectedRows ==
    lastWrite.kind # "none" => lastWrite.returned = Num(lastWrite.affected)

(***************************************************************************)
(* ModelQueryBuilder.whereHas / whereDoesntHave on User.query(), User      *)
(* having the relations posts (HasMany), profile (HasOne) and roles        *)
(* (BelongsToMany with a wherePivot).                                      *)
(***************************************************************************)
HasRelations == {"posts", "profile", "roles"}

\* relationInstance.getRelationCountQuery('users'), the sql as words
getRelationCountQuery(rel) ==
    CASE rel = "posts" ->
            [sql |-> <<"(", "SELECT", "COUNT(*)", "FROM", "posts", "WHERE",
                       "posts.user_id", "=", "users.id", ")">>,
             bindings |-> <<>>]
      [] rel = "profile" ->
            [sql |-> <<"(", "SELECT", "COUNT(*)", "FROM", "profiles", "WHERE",
                       "profiles.user_id", "=", "users.id", ")">>,
             bindings |-> <<>>]
      [] OTHER ->
            [sql |-> <<"(", "SELECT", "COUNT(*)", "FROM", "roles", "INNER JOIN", "role_user",
                       "ON", "roles.id", "=", "role_user.role_id", "WHERE",
                       "role_user.user_id", "=", "users.id",
                       "AND", "role_user.active", "=", "?", ")">>,
             bindings |-> <<Num(1)>>]

RelatedTable(rel) == CASE rel = "posts" -> "posts" [] rel = "profile" -> "profiles"
                       [] OTHER -> "roles"

\* sql.replace(/^\(SELECT COUNT\(\*\)/i, '(SELECT 1')
ReplaceCount(words) ==
    IF Len(words) >= 3 /\ SubSeq(words, 1, 3) = <<"(", "SELECT", "COUNT(*)">>
    THEN <<"(", "SELECT", "1">> \o SubSeq(words, 4, Len(words))
    ELSE words

\* existsSql.slice(1, -1)
SliceParens(words) == SubSeq(words, 2, Len(words) - 1)

\* the callbacks a caller passes: none, one that adds a constraint, one that
\* also names the table of the subquery
HasCallbacks == {"none", "where", "table"}
ApplyCallback(cb, q, rel) ==
    CASE cb = "none" -> q
      [] cb = "where" -> where(q, "published", Num(1), Undef)
      [] OTHER -> where(table(q, RelatedTable(rel)), "published", Num(1), Undef)

\* the callback whereHas hands to whereExists, run on the new QueryBuilder
HasSubquery(rel, cb) ==
    LET count == getRelationCountQuery(rel)
        existsSql == ReplaceCount(count.sql)
    IN ApplyCallback(cb, selectRaw(NewQueryBuilder, SliceParens(existsSql), count.bindings), rel)

whereHas(q, rel, cb) == whereExists(q, HasSubquery(rel, cb), "and", FALSE)
whereDoesntHave(q, rel, cb) == whereNotExists(q, HasSubquery(rel, cb), "and")

HasCall(rel, cb, not) == [relation |-> rel, callback |-> cb, not |-> not]

MWhereHas ==
    /\ Len(hasLog) < MaxHas
    /\ \E rel \in HasRelations, cb \in HasCallbacks :
          /\ hasQb' = whereHas(hasQb, rel, cb)
          /\ hasLog' = Append(hasLog, HasCall(rel, cb, FALSE))
    /\ hasRet' = This
    /\ UNCHANGED notHas

MWhereDoesntHave ==
    /\ Len(hasLog) < MaxHas
    /\ \E rel \in HasRelations, cb \in HasCallbacks :
          /\ hasQb' = whereDoesntHave(hasQb, rel, cb)
          /\ hasLog' = Append(hasLog, HasCall(rel, cb, TRUE))
    /\ hasRet' = This
    /\ UNCHANGED notHas

\* get() up to the compiled statement it sends
MHasGet ==
    /\ hasRet' = Returned(buildSelectQuery(hasQb))
    /\ UNCHANGED <<hasQb, hasLog>>
    /\ UNCHANGED notHas

\* Model.query(): Database.table('users') in a ModelQueryBuilder
HasNew == hasQb = FreshBuilder /\ hasLog = <<>> /\ hasRet = NoReturn
HasInit == HasNew
NextHas == \/ MWhereHas \/ MWhereDoesntHave \/ MHasGet

(***************************************************************************)
(* C18: the SQL of whereHas / whereDoesntHave.                             *)
(***************************************************************************)
Contains(text, part) ==
    \E i \in 0..(Len(text) - Len(part)) : SubSeq(text, i + 1, i + Len(part)) = part

\* EXISTS / NOT EXISTS ( SELECT 1 FROM ... WHERE <correlation> [AND <cb's constraint>] )
ExpectedExists(call) ==
    LET count == getRelationCountQuery(call.relation)
        body == Annotate(SubSeq(count.sql, 4, Len(count.sql) - 1), count.bindings)
        extra == IF call.callback = "none" THEN <<>>
                 ELSE <<Tok("AND"), Tok("published"), Tok("="), Ph(Num(1))>>
    IN <<Tok(IF call.not THEN "NOT EXISTS" ELSE "EXISTS"), Tok("("), Tok("SELECT"), Tok("1")>>
       \o body \o extra \o <<Tok(")")>>

\* C18: a query with whereHas(relation, cb) (whereDoesntHave) compiles without
\* error, its WHERE clause holds EXISTS (NOT EXISTS) around SELECT 1 FROM the
\* related table WHERE the correlation, with cb's constraints inside the
\* subquery, and every placeholder stands where its binding is.
C18_WhereHasCompiles ==
    (hasRet.kind = "built" /\ hasLog # <<>>) =>
        /\ hasRet.ok
        /\ \A i \in DOMAIN hasLog : Contains(hasRet.sql, ExpectedExists(hasLog[i]))
        /\ Placeholders(hasRet.sql) = hasRet.bindings

(***************************************************************************)
(* Eager loading: User.with('posts') / User.with({posts: cb}) followed by  *)
(* get(), User having posts() { return this.hasMany(Post, 'user_id') }.    *)
(* get() loads the users 1..MaxUsers; the posts table does not change.     *)
(***************************************************************************)
Users == 1..MaxUsers
PostRows == [id : {0}, user_id : Users, published : {0, 1}]

RECURSIVE PostTables(_)
\* the tables of n rows, row i having id = i
PostTables(n) ==
    IF n = 0 THEN {<<>>}
    ELSE {Append(t, [r EXCEPT !.id = n]) : t \in PostTables(n - 1), r \in PostRows}

\* the constraint callback of with({posts: q => q.where('published', true)})
Constraint(q) == where(q, "published", Num(1), Undef)

\* HasMany.query(): this.related.query().where(foreignKey, parentKeyValue)
HasManyQuery(parent) == where(table(NewQueryBuilder, "posts"), "user_id", Num(parent), Undef)

\* HasMany.get(): this.related.where(foreignKey, parentKeyValue).get()
HasManyGet(parent, rows) ==
    Filter(rows, where(table(NewQueryBuilder, "posts"), "user_id", Num(parent), Undef).whereClauses)

\* the body of the inner loop of loadRelations for one model: the callback
\* is run on the builder query() returns, the result is what get() returns
LoadRelation(parent, callback, rows) ==
    LET constrained == IF callback = "constraint" THEN Constraint(HasManyQuery(parent))
                       ELSE HasManyQuery(parent)
    IN HasManyGet(parent, rows)

NotLoaded == [done |-> FALSE,
              relations |-> [u \in Users |-> [set |-> FALSE, value |-> <<>>]],
              invoked |-> [u \in Users |-> 0]]

\* with('posts')
EWith ==
    /\ eagerLoad' = "null"
    /\ loaded' = NotLoaded
    /\ UNCHANGED posts
    /\ UNCHANGED notEager

\* with({posts: cb})
EWithConstraint ==
    /\ eagerLoad' = "constraint"
    /\ loaded' = NotLoaded
    /\ UNCHANGED posts
    /\ UNCHANGED notEager

\* get(): hydrate every user, then loadRelations
EGet ==
    /\ loaded' = IF eagerLoad = "absent"
                 THEN [NotLoaded EXCEPT !.done = TRUE]
                 ELSE [done |-> TRUE,
                       relations |-> [u \in Users |->
                                        [set |-> TRUE,
                                         value |-> Ids(LoadRelation(u, eagerLoad, posts))]],
                       invoked |-> [u \in Users |-> 1]]
    /\ UNCHANGED <<posts, eagerLoad>>
    /\ UNCHANGED notEager

EagerIdle == eagerLoad = "absent" /\ loaded = NotLoaded
EagerNew == posts = <<>> /\ EagerIdle
EagerInit == posts \in PostTables(MaxPosts) /\ EagerIdle
NextEager == \/ EWith \/ EWithConstraint \/ EGet

(***************************************************************************)
(* C19: eager loading with a constraint callback.                          *)
(***************************************************************************)
\* the posts of the user that satisfy the constraint, in row order
ConstrainedPosts(u) ==
    Ids(SelectSeq(posts, LAMBDA r : r.user_id = u /\ r.published = 1))

\* C19: after get() on with({posts: cb}), the accessor was invoked once for
\* every loaded model, and the value stored in the model's relations map
\* holds exactly the related rows that match the model's key and satisfy cb.
C19_EagerLoadConstrained ==
    (loaded.done /\ eagerLoad = "constraint") =>
        \A u \in Users :
            /\ loaded.invoked[u] = 1
            /\ loaded.relations[u].set
            /\ loaded.relations[u].value = ConstrainedPosts(u)

(***************************************************************************)
(* Global scopes of a model class User.  A scope named s is the callback   *)
(* builder => builder.where(s, 1); the users table holds one row for every *)
(* combination of the columns active, verified and admin.                  *)
(***************************************************************************)
ScopeNames == {"active", "verified"}

UserRows ==
    <<[id |-> 1, active |-> 0, verified |-> 0, admin |-> 0],
      [id |-> 2, active |-> 0, verified |-> 0, admin |-> 1],
      [id |-> 3, active |-> 0, verified |-> 1, admin |-> 0],
      [id |-> 4, active |-> 0, verified |-> 1, admin |-> 1],
      [id |-> 5, active |-> 1, verified |-> 0, admin |-> 0],
      [id |-> 6, active |-> 1, verified |-> 0, admin |-> 1],
      [id |-> 7, active |-> 1, verified |-> 1, admin |-> 0],
      [id |-> 8, active |-> 1, verified |-> 1, admin |-> 1]>>

\* GlobalScopeRegistry.register: Map.set keeps the place of a name already there
register(registry, name) ==
    IF \E i \in DOMAIN registry : registry[i] = name THEN registry
    ELSE Append(registry, name)

\* GlobalScopeRegistry.remove: Map.delete
remove(registry, name) == SelectSeq(registry, LAMBDA s : s # name)

\* CallbackGlobalScope.apply for the scope named s
apply(q, s) == where(q, s, Num(1), Undef)

RECURSIVE applyAll(_, _)
\* GlobalScopeRegistry.applyAll: every scope, in insertion order
applyAll(registry, q) ==
    IF registry = <<>> THEN q
    ELSE applyAll(Tail(registry), apply(q, Head(registry)))

NoBuilder == [made |-> "none", q |-> FreshBuilder, applied |-> {}, chained |-> 0]
NotFound == [done |-> FALSE, rows |-> <<>>]

AddGlobalScope ==
    /\ \E s \in ScopeNames : scopes' = register(scopes, s)
    /\ UNCHANGED <<scoped, found>>
    /\ UNCHANGED notScope

RemoveGlobalScope ==
    /\ \E s \in ScopeNames : scopes' = remove(scopes, s)
    /\ UNCHANGED <<scoped, found>>
    /\ UNCHANGED notScope

\* Model.query()
ModelQuery ==
    /\ scoped' = [made |-> "query", q |-> applyAll(scopes, FreshBuilder),
                  applied |-> {scopes[i] : i \in DOMAIN scopes}, chained |-> 0]
    /\ found' = NotFound
    /\ UNCHANGED scopes
    /\ UNCHANGED notScope

\* Model.withoutGlobalScopes()
WithoutGlobalScopes ==
    /\ scoped' = [made |-> "without", q |-> FreshBuilder, applied |-> {}, chained |-> 0]
    /\ found' = NotFound
    /\ UNCHANGED scopes
    /\ UNCHANGED notScope

CanChain == scoped.made # "none" /\ scoped.chained < MaxChain

\* ModelQueryBuilder.where('admin', v)
ScopedWhere ==
    /\ CanChain
    /\ \E v \in {0, 1} :
          scoped' = [scoped EXCEPT !.q = where(@, "admin", Num(v), Undef), !.chained = @ + 1]
    /\ found' = NotFound
    /\ UNCHANGED scopes
    /\ UNCHANGED notScope

\* ModelQueryBuilder.orWhere('admin', v)
ScopedOrWhere ==
    /\ CanChain
    /\ \E v \in {0, 1} :
          scoped' = [scoped EXCEPT !.q = orWhere(@, "admin", Num(v), Undef), !.chained = @ + 1]
    /\ found' = NotFound
    /\ UNCHANGED scopes
    /\ UNCHANGED notScope

\* ModelQueryBuilder.get(): the rows the compiled SELECT returns
ScopedGet ==
    /\ scoped.made # "none"
    /\ found' = [done |-> TRUE, rows |-> Filter(UserRows, scoped.q.whereClauses)]
    /\ UNCHANGED <<scopes, scoped>>
    /\ UNCHANGED notScope

ScopeNew == scopes = <<>> /\ scoped = NoBuilder /\ found = NotFound
ScopeInit == ScopeNew
NextScope == \/ AddGlobalScope \/ RemoveGlobalScope \/ ModelQuery \/ WithoutGlobalScopes
             \/ ScopedWhere \/ ScopedOrWhere \/ ScopedGet

(***************************************************************************)
(* C20: global scopes.                                                     *)
(***************************************************************************)
\* C20: every row a query built through Model.query() returns satisfies the
\* constraint of every global scope that was registered when the builder
\* was made, whatever the caller chained afterwards (orWhere included).
C20_ScopeAlwaysHolds ==
    found.done =>
        \A i \in DOMAIN found.rows : \A s \in scoped.applied : found.rows[i][s] = 1

(***************************************************************************)
(* withSoftDeletes(Model): the static delete, restore, forceDelete and the *)
(* builders of query(), withTrashed() and onlyTrashed(), over a table of   *)
(* rows [id, deleted_at].                                                  *)
(***************************************************************************)
\* UPDATE ... SET column = value under the builder's WHERE state
RunUpdate(rows, q, column, value) ==
    [i \in DOMAIN rows |->
        IF WhereHolds(q.whereClauses, rows[i]) THEN [rows[i] EXCEPT ![column] = value]
        ELSE rows[i]]

\* DELETE FROM ... under the builder's WHERE state
RunDelete(rows, q) == SelectSeq(rows, LAMBDA r : ~WhereHolds(q.whereClauses, r))

\* (a slip: query() without the deleted_at filter)
Unfiltered(base) == base

\* SoftDeleteModel.query(): super.query() and whereNull(deletedAtColumn)
SoftQuery(base) == whereNull(base, "deleted_at")

withTrashed == FreshBuilder
onlyTrashed == whereNotNull(withTrashed, "deleted_at")

\* what get() on each of the three builders returns
QueryIds == Ids(Filter(softRows, SoftQuery(FreshBuilder).whereClauses))
WithTrashedIds == Ids(Filter(softRows, withTrashed.whereClauses))
OnlyTrashedIds == Ids(Filter(softRows, onlyTrashed.whereClauses))

InSeq(x, seq) == \E i \in DOMAIN seq : seq[i] = x
SoftIds == 1..MaxSoftRows
NoSoft == [op |-> "none", id |-> 0, existed |-> FALSE]
SoftCall(op, id) == [op |-> op, id |-> id, existed |-> InSeq(id, Ids(softRows))]

\* delete(id): query().where(primaryKey, id).update({deleted_at: new Date()})
SoftDelete ==
    /\ \E id \in SoftIds, date \in 1..MaxStamp :
          /\ softRows' = RunUpdate(softRows, where(SoftQuery(FreshBuilder), "id", Num(id), Undef),
                                   "deleted_at", date)
          /\ lastSoft' = SoftCall("delete", id)
    /\ UNCHANGED notSoft

\* restore(id): withTrashed().where(primaryKey, id).update({deleted_at: null})
SoftRestore ==
    /\ \E id \in SoftIds :
          /\ softRows' = RunUpdate(softRows, where(withTrashed, "id", Num(id), Undef),
                                   "deleted_at", NullCell)
          /\ lastSoft' = SoftCall("restore", id)
    /\ UNCHANGED notSoft

\* forceDelete(id): withTrashed().where(primaryKey, id).delete()
SoftForceDelete ==
    /\ \E id \in SoftIds :
          /\ softRows' = RunDelete(softRows, where(withTrashed, "id", Num(id), Undef))
          /\ lastSoft' = SoftCall("forceDelete", id)
    /\ UNCHANGED notSoft

SoftNew == softRows = <<>> /\ lastSoft = NoSoft
SoftInit == softRows = [i \in SoftIds |-> [id |-> i, deleted_at |-> NullCell]] /\ lastSoft = NoSoft
NextSoft == \/ SoftDelete \/ SoftRestore \/ SoftForceDelete

UpperLetters == <<"A", "B", "C", "D", "E", "F", "G", "H", "I", "J", "K",
                 "L", "M", "N", "O", "P", "Q", "R", "S", "T", "U", "V", "W", "X", "Y", "Z">>
LowerLetters == <<"a", "b", "c", "d", "e", "f", "g", "h", "i", "j", "k",
                 "l", "m", "n", "o", "p", "q", "r", "s", "t", "u", "v", "w", "x", "y", "z">>
Whitespace == {" ", "\t", "\n"}

\* (a slip: the pattern without its i flag)
CaseSensitive(c) == c

\* the i flag of the pattern: a letter matches in either case
IgnoreCase(c) ==
    IF \E i \in DOMAIN UpperLetters : UpperLetters[i] = c
    THEN LowerLetters[CHOOSE i \in DOMAIN UpperLetters : UpperLetters[i] = c]
    ELSE c

RECURSIVE SkipWhitespace(_)
\* ^\s*
SkipWhitespace(text) ==
    IF text # <<>> /\ Head(text) \in Whitespace THEN SkipWhitespace(Tail(text)) ELSE text

\* (?:insert|update|delete|create|alter|drop|truncate|replace)
WritePrefixes ==
    {<<"i", "n", "s", "e", "r", "t">>, <<"u", "p", "d", "a", "t", "e">>,
     <<"d", "e", "l", "e", "t", "e">>, <<"c", "r", "e", "a", "t", "e">>,
     <<"a", "l", "t", "e", "r">>, <<"d", "r", "o", "p">>,
     <<"t", "r", "u", "n", "c", "a", "t", "e">>, <<"r", "e", "p", "l", "a", "c", "e">>}

StartsWith(text, prefix) ==
    /\ Len(text) >= Len(prefix)
    /\ \A i \in DOMAIN prefix : IgnoreCase(text[i]) = prefix[i]

\* /^\s*(?:insert|update|delete|create|alter|drop|truncate|replace)/i.test(sql)
isWriteOperation(sql) == \E prefix \in WritePrefixes : StartsWith(SkipWhitespace(sql), prefix)

\* the pool (SQLite: the database handle) query() runs the statement on
\* when no transaction is open
RoutePool(hasWrite, sql) == IF isWriteOperation(sql) /\ hasWrite THEN "write" ELSE "read"

\* the statements sent, without their leading whitespace
StatementBodies ==
    {<<"S", "E", "L", "E", "C", "T", " ", "1">>,
     <<"s", "e", "l", "e", "c", "t", " ", "1">>,
     <<"I", "n", "s", "e", "r", "t", " ", "I", "N", "T", "O", " ", "t">>,
     <<"U", "P", "D", "A", "T", "E", " ", "t">>,
     <<"d", "e", "l", "e", "t", "e", " ", "f", "r", "o", "m", " ", "t">>,
     <<"C", "R", "E", "A", "T", "E", " ", "T", "A", "B", "L", "E", " ", "t">>,
     <<"a", "l", "t", "e", "r", " ", "t", "a", "b", "l", "e", " ", "t">>,
     <<"D", "R", "O", "P", " ", "T", "A", "B", "L", "E", " ", "t">>,
     <<"T", "r", "u", "n", "c", "a", "t", "e", " ", "t">>,
     <<"R", "E", "P", "L", "A", "C", "E", " ", "I", "N", "T", "O", " ", "t">>,
     <<"W", "I", "T", "H", " ", "d", " ", "A", "S", " ", "(", "D", "E", "L", "E", "T", "E", " ", "F", "R", "O", "M", " ", "t", ")", " ", "S", "E", "L", "E", "C", "T", " ", "1">>,
     <<"S", "E", "L", "E", "C", "T", " ", "1", " ", "F", "O", "R", " ", "U", "P", "D", "A", "T", "E">>,
     <<"B", "E", "G", "I", "N">>, <<"C", "O", "M", "M", "I", "T">>,
     <<"S", "H", "O", "W", " ", "T", "A", "B", "L", "E", "S">>,
     <<"E", "X", "P", "L", "A", "I", "N", " ", "D", "E", "L", "E", "T", "E", " ", "F", "R", "O", "M", " ", "t">>,
     <<"(", "S", "E", "L", "E", "C", "T", " ", "1", ")">>, <<>>}

RECURSIVE Leads(_)
\* the runs of at most n whitespace characters
Leads(n) == IF n = 0 THEN {<<>>}
            ELSE Leads(n - 1) \cup
                 {<<w>> \o l : w \in Whitespace, l \in {x \in Leads(n - 1) : Len(x) = n - 1}}

NotRouted == [sql |-> <<>>, pool |-> "none"]

\* connection.query(sql), no transaction open: the call up to driver's execute
RouteQuery ==
    /\ routed = NotRouted
    /\ \E lead \in Leads(MaxLead), body \in StatementBodies :
          routed' = [sql |-> lead \o body, pool |-> RoutePool(routeCfg.write, lead \o body)]
    /\ UNCHANGED routeCfg
    /\ UNCHANGED notRoute

\* the driver answers and query() returns
RouteReturn ==
    /\ routed # NotRouted
    /\ routed' = NotRouted
    /\ UNCHANGED routeCfg
    /\ UNCHANGED notRoute

RouteNew == routeCfg = [driver |-> "mysql", write |-> FALSE] /\ routed = NotRouted
RouteInit == routeCfg \in [driver : Drivers, write : BOOLEAN] /\ routed = NotRouted
NextRoute == \/ RouteQuery \/ RouteReturn

(***************************************************************************)
(* C22: which pool a statement goes to.                                    *)
(***************************************************************************)
Letters == {UpperLetters[i] : i \in DOMAIN UpperLetters}
             \cup {LowerLetters[i] : i \in DOMAIN LowerLetters}

RECURSIVE LeadingWord(_)
\* the letters a text starts with
LeadingWord(text) ==
    IF text # <<>> /\ Head(text) \in Letters
    THEN <<Head(text)>> \o LeadingWord(Tail(text)) ELSE <<>>

RECURSIVE StripLeft(_)
StripLeft(text) ==
    IF text # <<>> /\ Head(text) \in Whitespace THEN StripLeft(Tail(text)) ELSE text

\* the first keyword of a statement, in lower case
FirstKeyword(text) ==
    LET word == LeadingWord(StripLeft(text))
    IN [i \in DOMAIN word |->
          IF \E j \in DOMAIN UpperLetters : UpperLetters[j] = word[i]
          THEN LowerLetters[CHOOSE j \in DOMAIN UpperLetters : UpperLetters[j] = word[i]]
          ELSE word[i]]

\* C22: outside a transaction a statement goes to the write pool exactly
\* when a write pool is configured and the statement's first keyword after
\* leading whitespace is, in any case, one of insert, update, delete,
\* create, alter, drop, truncate, replace; every other statement goes to
\* the read pool (the single pool when no write pool is configured).
C22_RoutedByFirstKeyword ==
    routed.pool # "none" =>
        (routed.pool = "write"
            <=> (routeCfg.write /\ FirstKeyword(routed.sql) \in WritePrefixes))

\* a mixed-case write after whitespace went to the write pool, and a WITH
\* statement that holds a DELETE went to the read pool
C22_Witness ==
    /\ routeCfg.write
    /\ \/ /\ routed.pool = "write"
          /\ Len(routed.sql) > 2 /\ routed.sql[1] = "\n" /\ routed.sql[2] = "I"
       \/ /\ routed.pool = "read"
          /\ Len(routed.sql) > 2 /\ routed.sql[1] = "W"

(***************************************************************************)
(* SQLiteConnection: query, beginTransaction, commit and rollback over the *)
(* handles db and writeDb (better-sqlite3 runs a statement synchronously). *)
(* A handle holds the rows of its database file; BEGIN inside a            *)
(* transaction, and COMMIT or ROLLBACK outside one, are errors of SQLite.  *)
(***************************************************************************)
BeginSql == <<"B", "E", "G", "I", "N", " ", "T", "R", "A", "N", "S", "A", "C", "T", "I", "O", "N">>
CommitSql == <<"C", "O", "M", "M", "I", "T">>
RollbackSql == <<"R", "O", "L", "L", "B", "A", "C", "K">>
InsertSql == <<"I", "N", "S", "E", "R", "T", " ", "I", "N", "T", "O", " ", "t", " ", "V", "A", "L", "U", "E", "S", " ", "(", "?", ")">>
SelectSql == <<"S", "E", "L", "E", "C", "T", " ", "*", " ", "F", "R", "O", "M", " ", "t">>

\* isWriteOperation && this.writeDb ? this.writeDb : this.db
SqConnection(sql) == IF RoutePool(sqSplit, sql) = "write" THEN "writeDb" ELSE "db"

ClosedHandle == [rows |-> {}, inTx |-> FALSE, saved |-> {}]

\* what the handle does with a statement: its next state, or the error it raises
SqExecute(h, kind, row) ==
    CASE kind = "begin" ->
            IF h.inTx THEN [ok |-> FALSE, h |-> h]
            ELSE [ok |-> TRUE, h |-> [h EXCEPT !.inTx = TRUE, !.saved = h.rows]]
      [] kind = "commit" ->
            IF ~h.inTx THEN [ok |-> FALSE, h |-> h]
            ELSE [ok |-> TRUE, h |-> [h EXCEPT !.inTx = FALSE]]
      [] kind = "rollback" ->
            IF ~h.inTx THEN [ok |-> FALSE, h |-> h]
            ELSE [ok |-> TRUE, h |-> [h EXCEPT !.inTx = FALSE, !.rows = h.saved]]
      [] kind = "insert" -> [ok |-> TRUE, h |-> [h EXCEPT !.rows = @ \cup {row}]]
      [] OTHER -> [ok |-> TRUE, h |-> h]

NoSqCall == [kind |-> "none", on |-> "none", ok |-> TRUE, rowsAtBegin |-> {}]

\* SQLiteConnection.query(sql): the handle is chosen, the statement runs on it;
\* an error of the handle is rethrown as 'SQLite query failed: ...'
SqQuery(kind, sql, row) ==
    LET on == SqConnection(sql)
        done == SqExecute(sqHandles[on], kind, row)
        call == [kind |-> kind, on |-> on, ok |-> done.ok,
                 rowsAtBegin |-> IF kind = "begin" THEN sqHandles["writeDb"].rows
                                 ELSE IF sqCalls # <<>> THEN sqCalls[1].rowsAtBegin ELSE {}]
    IN /\ sqHandles' = [sqHandles EXCEPT ![on] = done.h]
       /\ sqLast' = call
       /\ sqCalls' = IF kind = "begin" THEN (IF done.ok THEN <<call>> ELSE sqCalls)
                     ELSE IF sqCalls = <<>> THEN <<>>
                     ELSE IF Len(sqCalls) < MaxSqCalls THEN Append(sqCalls, call)
                     ELSE sqCalls
       /\ UNCHANGED sqSplit
       /\ UNCHANGED notSqlite

\* beginTransaction(): this.query('BEGIN TRANSACTION')
SqBeginTransaction == /\ SqQuery("begin", BeginSql, 0)

\* commit(): this.query('COMMIT')
SqCommit == /\ Len(sqCalls) < MaxSqCalls /\ SqQuery("commit", CommitSql, 0)

\* rollback(): this.query('ROLLBACK')
SqRollback == /\ Len(sqCalls) < MaxSqCalls /\ SqQuery("rollback", RollbackSql, 0)

\* query('INSERT ...', [row])
SqInsert == /\ \E row \in 1..MaxSqRows : SqQuery("insert", InsertSql, row)

\* query('SELECT ...')
SqSelect == /\ SqQuery("select", SelectSql, 0)

SqliteIdle ==
    /\ sqHandles = [h \in {"db", "writeDb"} |-> ClosedHandle]
    /\ sqCalls = <<>>
    /\ sqLast = NoSqCall
SqliteNew == sqSplit = FALSE /\ SqliteIdle
SqliteInit == sqSplit \in BOOLEAN /\ SqliteIdle
NextSqlite == \/ SqBeginTransaction \/ SqCommit \/ SqRollback \/ SqInsert \/ SqSelect

(***************************************************************************)
(* C23: a transaction on a SQLite connection with a write database.        *)
(***************************************************************************)
\* C23: with separate read and write databases, BEGIN and every statement up
\* to COMMIT or ROLLBACK run on the write database's handle, and after a
\* rollback the write database holds the rows it held at beginTransaction.
C23_SqliteTransactionOnWriteDb ==
    (sqSplit /\ sqCalls # <<>>) =>
        /\ \A i \in DOMAIN sqCalls : sqCalls[i].on = "writeDb"
        /\ (sqLast.kind = "rollback" /\ sqLast.ok) =>
              sqHandles["writeDb"].rows = sqLast.rowsAtBegin

(***************************************************************************)
(* QueryBuilder.insert.  An object is the sequence of its own properties   *)
(* in insertion order, each a pair <<key, value>>.                         *)
(***************************************************************************)
InsertKeys == {"a", "b"}
InsertValues == {Num(1), Null, Undef}

RECURSIVE Objects(_)
\* the objects with properties among the keys given
Objects(keys) ==
    {<<>>} \cup UNION {{<<<<k, v>>>> \o o : v \in InsertValues, o \in Objects(keys \ {k})}
                        : k \in keys}

RECURSIVE ObjectLists(_)
ObjectLists(n) ==
    IF n = 0 THEN {<<>>}
    ELSE ObjectLists(n - 1) \cup
         {Append(l, o) : l \in {x \in ObjectLists(n - 1) : Len(x) = n - 1},
                         o \in Objects(InsertKeys)}

\* Object.keys(o)
ObjectKeys(o) == [i \in DOMAIN o |-> o[i][1]]

\* o[key]
Property(o, key) ==
    IF \E i \in DOMAIN o : o[i][1] = key
    THEN o[CHOOSE i \in DOMAIN o : o[i][1] = key][2]
    ELSE Undef

\* (a slip: the value pushed as it is)
AsIs(v) == v

\* row[col] !== undefined ? row[col] : null
OrNull(v) == IF v # Undef THEN v ELSE Null

\* `(${columns.map(() => '?').join(', ')})`
PlaceholderGroup(columns) ==
    <<Tok("(")>> \o Join([i \in DOMAIN columns |-> <<Tok("?")>>], <<Tok(",")>>) \o <<Tok(")")>>

\* the nested for loops that fill `values`
InsertValuesOf(dataArray, columns) ==
    Flatten([r \in DOMAIN dataArray |->
                [c \in DOMAIN columns |-> OrNull(Property(dataArray[r], columns[c]))]])

NotSent == [sent |-> FALSE, sql |-> <<>>, bindings |-> <<>>]

\* insert(data) on a builder with a table, up to connection.query(sql, values)
insert(q, dataArray) ==
    IF q.tableName = "" THEN NotSent
    ELSE IF Len(dataArray) = 0 THEN NotSent
    ELSE LET columns == ObjectKeys(dataArray[1])
             placeholders == Join([r \in DOMAIN dataArray |-> PlaceholderGroup(columns)],
                                  <<Tok(",")>>)
         IN [sent |-> TRUE,
             sql |-> <<Tok("INSERT INTO"), Tok(q.tableName), Tok("(")>>
                       \o Join([c \in DOMAIN columns |-> <<Tok(columns[c])>>], <<Tok(",")>>)
                       \o <<Tok(")"), Tok("VALUES")>> \o placeholders,
             bindings |-> InsertValuesOf(dataArray, columns)]

NoInsert == [called |-> FALSE, data |-> <<>>, sent |-> FALSE, sql |-> <<>>, bindings |-> <<>>]
Inserted(dataArray, r) ==
    [called |-> TRUE, data |-> dataArray, sent |-> r.sent, sql |-> r.sql, bindings |-> r.bindings]

\* insert([...])
QInsertRows ==
    /\ lastInsert = NoInsert
    /\ \E data \in ObjectLists(MaxInsertRows) :
          lastInsert' = Inserted(data, insert(FreshBuilder, data))
    /\ UNCHANGED notInsert

\* insert({...}): Array.isArray(data) ? data : [data]
QInsertRecord ==
    /\ lastInsert = NoInsert
    /\ \E data \in Objects(InsertKeys) :
          lastInsert' = Inserted(<<data>>, insert(FreshBuilder, <<data>>))
    /\ UNCHANGED notInsert

\* the driver answers and insert() returns its result
QInsertReturn ==
    /\ lastInsert # NoInsert
    /\ lastInsert' = NoInsert
    /\ UNCHANGED notInsert

InsertNew == lastInsert = NoInsert
InsertInit == InsertNew
NextInsert == \/ QInsertRows \/ QInsertRecord \/ QInsertReturn

(***************************************************************************)
(* C24: the statement of insert().                                         *)
(***************************************************************************)
RECURSIVE Occurrences(_, _)
Occurrences(text, s) ==
    IF text = <<>> THEN 0
    ELSE (IF Head(text).s = s THEN 1 ELSE 0) + Occurrences(Tail(text), s)

\* the text from its first VALUES on
RECURSIVE FromValues(_)
FromValues(text) ==
    IF text = <<>> \/ Head(text).s = "VALUES" THEN text ELSE FromValues(Tail(text))

\* the column names between INSERT INTO t ( and ) VALUES
ColumnList(text) ==
    LET upto == Len(text) - Len(FromValues(text))
    IN SelectSeq([i \in 1..(upto - 4) |-> text[i + 3].s], LAMBDA s : s # ",")

\* C24: insert of R >= 1 rows sends one INSERT whose columns are the keys
\* of the first row (C of them), with R groups of C placeholders and R*C
\* bindings in row-major order, NULL where a row lacks the column; keys
\* that the first row lacks are not inserted; insert([]) sends nothing.
C24_InsertRowMajor ==
    lastInsert.called =>
        LET R == Len(lastInsert.data)
            columns == IF R = 0 THEN <<>> ELSE ObjectKeys(lastInsert.data[1])
            C == Len(columns)
        IN /\ lastInsert.sent <=> R > 0
           /\ R > 0 =>
                 /\ ColumnList(lastInsert.sql) = columns
                 /\ Occurrences(lastInsert.sql, "INSERT INTO") = 1
                 /\ Occurrences(FromValues(lastInsert.sql), "(") = R
                 /\ Occurrences(lastInsert.sql, "?") = R * C
                 /\ Len(lastInsert.bindings) = R * C
                 /\ \A r \in 1..R, c \in 1..C :
                       lastInsert.bindings[(r - 1) * C + c] =
                          (IF \E i \in DOMAIN lastInsert.data[r] :
                                 /\ lastInsert.data[r][i][1] = columns[c]
                                 /\ lastInsert.data[r][i][2] # Undef
                           THEN Property(lastInsert.data[r], columns[c])
                           ELSE Null)

\* two rows were inserted, the second lacking a column of the first and
\* having a key the first lacks
C24_Witness ==
    /\ lastInsert.sent
    /\ Len(lastInsert.data) = 2
    /\ ObjectKeys(lastInsert.data[1]) = <<"a">>
    /\ ObjectKeys(lastInsert.data[2]) = <<"b">>
    /\ lastInsert.bindings = <<Num(1), Null>>

(***************************************************************************)
(* C25, C26: the clause methods of QueryBuilder.                           *)
(***************************************************************************)
IsPrefixOf(a, b) == Len(a) <= Len(b) /\ SubSeq(b, 1, Len(a)) = a

WhereCall == \/ QWhere \/ QOrWhere \/ QWhereIn \/ QWhereNotIn \/ QWhereNull \/ QWhereNotNull
             \/ QWhereRaw \/ QOrWhereRaw \/ QWhereExists \/ QWhereNotExists
ClauseCall == \/ WhereCall \/ QSelect \/ QSelectRaw \/ QOrderBy \/ QLimit \/ QOffset

\* C25: every clause method returns the builder it was called on and leaves
\* the where and orderBy clauses appended before it as they were, in their
\* order; a where-type call appends exactly one clause at the end, so the
\* where list is the list of the where-type calls in call order.
C25_ClauseMethodsAppend ==
    [][ClauseCall =>
          /\ ret' = This
          /\ IsPrefixOf(qb.whereClauses, qb'.whereClauses)
          /\ IsPrefixOf(qb.orderByColumns, qb'.orderByColumns)
          /\ Len(qb'.whereClauses) = Len(qb.whereClauses) + (IF WhereCall THEN 1 ELSE 0)]_vars

\* three where-type calls of different kinds were chained, the last one returning the builder
C25_Witness ==
    /\ ret = This
    /\ Len(qb.whereClauses) = 3
    /\ qb.whereClauses[1].type = "basic"
    /\ qb.whereClauses[2].type = "in"
    /\ qb.whereClauses[3].boolean = "or"

WhereValues == {Num(1), Null, Str("=")}

\* C26: for every value v other than undefined, where(col, v) and
\* where(col, '=', v) on the same builder compile to the same SQL text and
\* the same bindings; so do orWhere(col, v) and orWhere(col, '=', v).
\* Checked on every builder of the chains that can take one more call.
C26_TwoArgumentWhereIsEquals ==
    CanCall => \A col \in {"id"}, v \in WhereValues :
        /\ buildSelectQuery(where(qb, col, v, Undef))
              = buildSelectQuery(where(qb, col, Str("="), v))
        /\ buildSelectQuery(orWhere(qb, col, v, Undef))
              = buildSelectQuery(orWhere(qb, col, Str("="), v))

\* a builder that where(col, v) was called on has been compiled
C26_Witness ==
    /\ ret.kind = "built" /\ ret.ok
    /\ Len(qb.whereClauses) >= 2
    /\ qb.whereClauses[1] = WhereClause("basic", <<"id">>, Str("="), <<Num(1)>>, NoQuery, "and")
    /\ qb.whereClauses[2].boolean = "or"

(***************************************************************************)
(* MorphTo (src/Model/Relations.ts): the inverse polymorphic relation.     *)
(***************************************************************************)
MorphTypes == {Undef, Null, Str(""), Str("Post"), Str("Video")}
MorphIds == {Undef, Null, Num(0), Num(1), Num(2)}
MorphClasses == {"Post", "Video"}

\* the ids each mapped class has a row for
StoredIds(class) == IF class = "Post" THEN {1} ELSE {1, 2}

NoMorph == [kind |-> "none", class |-> "", id |-> Undef]
MorphNull == [kind |-> "null", class |-> "", id |-> Undef]
MorphThrown == [kind |-> "throws", class |-> "No morph map entry", id |-> Undef]
MorphModel(class, id) == [kind |-> "model", class |-> class, id |-> id]

\* relatedClass.find(id): the row with that primary key, or null
MorphFind(class, id) ==
    IF id.t = "number" /\ id.n \in StoredIds(class) THEN MorphModel(class, id) ELSE MorphNull

\* the parent's attributes are set (Model proxy, setAttribute)
MorphSetParent ==
    /\ morphRet = NoMorph
    /\ \E type \in MorphTypes, id \in MorphIds : morphParent' = [type |-> type, id |-> id]
    /\ UNCHANGED <<morphMap, morphFinds, morphRet>>
    /\ UNCHANGED notMorph

\* map({ type: Class })
MorphMapType ==
    /\ morphRet = NoMorph
    /\ \E class \in MorphClasses : morphMap' = morphMap \cup {class}
    /\ UNCHANGED <<morphParent, morphFinds, morphRet>>
    /\ UNCHANGED notMorph

\* get()
MorphGet ==
    /\ morphRet = NoMorph
    /\ Len(morphFinds) < MaxFinds
    /\ LET morphType == morphParent.type
           morphId == morphParent.id
       IN  IF ~Truthy(morphType) \/ ~Truthy(morphId)
           THEN morphRet' = MorphNull /\ UNCHANGED morphFinds
           ELSE IF morphType.s \notin morphMap
           THEN morphRet' = MorphThrown /\ UNCHANGED morphFinds
           ELSE /\ morphFinds' = Append(morphFinds, [class |-> morphType.s, id |-> morphId])
                /\ morphRet' = MorphFind(morphType.s, morphId)
    /\ UNCHANGED <<morphParent, morphMap>>
    /\ UNCHANGED notMorph

\* the caller takes the outcome
MorphReturn ==
    /\ morphRet # NoMorph
    /\ morphRet' = NoMorph
    /\ UNCHANGED <<morphParent, morphMap, morphFinds>>
    /\ UNCHANGED notMorph

MorphNew ==
    /\ morphParent = [type |-> Undef, id |-> Undef]
    /\ morphMap = {}
    /\ morphFinds = <<>>
    /\ morphRet = NoMorph
MorphInit == MorphNew
NextMorph == MorphSetParent \/ MorphMapType \/ MorphGet \/ MorphReturn

\* a column is set when it holds a value: neither undefined nor null
IsSet(v) == v.t \notin {"undefined", "null"}

\* C27: get() on a parent with both morph columns set throws 'No morph map
\* entry' and looks nothing up when the type has no map entry, and dispatches
\* find(id) on the mapped class when it has one; it answers null without a
\* lookup only when the type or the id is missing.
C27_MorphToOutcome ==
    morphRet # NoMorph =>
        LET type == morphParent.type
            id == morphParent.id
            both == IsSet(type) /\ IsSet(id)
            looked == morphFinds # <<>> /\ morphFinds[Len(morphFinds)] = [class |-> type.s, id |-> id]
        IN  /\ (both /\ type.s \notin morphMap) => morphRet = MorphThrown
            /\ (both /\ type.s \in morphMap) => looked /\ morphRet = MorphFind(type.s, id)
            /\ ~both => morphRet = MorphNull

\* the same, for a parent whose morph id is not 0 and whose type is not ''
C27_HoldsForTruthyColumns ==
    (morphRet # NoMorph /\ Truthy(morphParent.type) /\ Truthy(morphParent.id)) =>
        /\ morphParent.type.s \notin morphMap => morphRet = MorphThrown
        /\ morphParent.type.s \in morphMap =>
              /\ morphFinds # <<>>
              /\ morphFinds[Len(morphFinds)] = [class |-> morphParent.type.s, id |-> morphParent.id]

(***************************************************************************)
(* TransactionManager.transaction called concurrently: sibling calls on    *)
(* one manager, each suspended at its awaits while the others run.         *)
(***************************************************************************)
Siblings == 1..NSiblings

Statement(by, op, level) == [by |-> by, op |-> op, level |-> level]

SibIdle == [pc |-> "idle", dup |-> FALSE]
SibAt(pc) == [pc |-> pc, dup |-> FALSE]

InProgress(c) == sibCall[c].pc \in {"opening", "callback"}

\* a BEGIN sent and not yet answered by COMMIT or ROLLBACK
BeginOutstanding ==
    \E i \in 1..Len(sibLog) :
        /\ sibLog[i].op = "BEGIN"
        /\ \A j \in (i + 1)..Len(sibLog) : sibLog[j].op \notin {"COMMIT", "ROLLBACK"}

\* transaction(callback), up to its first await
SibTransaction ==
    /\ \E c \in Siblings :
        /\ sibCall[c].pc = "idle"
        /\ sibLog' = Append(sibLog,
                IF sibDepth = 0 THEN Statement(c, "BEGIN", 0)
                                ELSE Statement(c, "SAVEPOINT", sibDepth))
        /\ sibCall' = [sibCall EXCEPT ![c] =
                [pc |-> "opening", dup |-> sibDepth = 0 /\ BeginOutstanding]]
        /\ sibOverlapped' = (sibOverlapped \/ \E d \in Siblings : InProgress(d))
    /\ UNCHANGED sibDepth
    /\ UNCHANGED notSibling

\* the opening statement resolved: depth++, and the callback runs up to its
\* first await, sending a statement
SibOpened ==
    /\ \E c \in Siblings :
        /\ sibCall[c].pc = "opening"
        /\ sibDepth' = sibDepth + 1
        /\ sibLog' = Append(sibLog, Statement(c, "WRITE", 0))
        /\ sibCall' = [sibCall EXCEPT ![c] = SibAt("callback")]
    /\ UNCHANGED sibOverlapped
    /\ UNCHANGED notSibling

\* the driver rejected a BEGIN sent inside an open transaction: the call throws
SibOpenFailed ==
    /\ \E c \in Siblings :
        /\ sibCall[c].pc = "opening" /\ sibCall[c].dup
        /\ sibCall' = [sibCall EXCEPT ![c] = SibAt("threw")]
    /\ UNCHANGED <<sibDepth, sibLog, sibOverlapped>>
    /\ UNCHANGED notSibling

\* the callback resolved: depth--, then COMMIT or RELEASE SAVEPOINT
SibResolved ==
    /\ \E c \in Siblings :
        /\ sibCall[c].pc = "callback"
        /\ sibDepth' = sibDepth - 1
        /\ sibLog' = Append(sibLog,
                IF sibDepth - 1 = 0 THEN Statement(c, "COMMIT", 0)
                                    ELSE Statement(c, "RELEASE SAVEPOINT", sibDepth - 1))
        /\ sibCall' = [sibCall EXCEPT ![c] = SibAt("returned")]
    /\ UNCHANGED sibOverlapped
    /\ UNCHANGED notSibling

\* the callback rejected: depth--, then ROLLBACK or ROLLBACK TO SAVEPOINT
SibRejected ==
    /\ \E c \in Siblings :
        /\ sibCall[c].pc = "callback"
        /\ sibDepth' = sibDepth - 1
        /\ sibLog' = Append(sibLog,
                IF sibDepth - 1 = 0 THEN Statement(c, "ROLLBACK", 0)
                                    ELSE Statement(c, "ROLLBACK TO SAVEPOINT", sibDepth - 1))
        /\ sibCall' = [sibCall EXCEPT ![c] = SibAt("threw")]
    /\ UNCHANGED sibOverlapped
    /\ UNCHANGED notSibling

SiblingNew ==
    /\ sibDepth = 0
    /\ sibCall = [c \in Siblings |-> SibIdle]
    /\ sibLog = <<>>
    /\ sibOverlapped = FALSE
SiblingInit == SiblingNew
NextSibling == SibTransaction \/ SibOpened \/ SibOpenFailed \/ SibResolved \/ SibRejected

\* the statement a call opened with
Opening(c) == CHOOSE i \in 1..Len(sibLog) : sibLog[i].by = c /\ sibLog[i].op \in {"BEGIN", "SAVEPOINT"}

Bracketed ==
    \A i \in 1..Len(sibLog) :
        LET s == sibLog[i] IN
        \* a savepoint is released or rolled back to by the call that created it
        /\ s.op \in {"RELEASE SAVEPOINT", "ROLLBACK TO SAVEPOINT"} =>
              sibLog[Opening(s.by)] = Statement(s.by, "SAVEPOINT", s.level)
        \* a transaction is committed or rolled back by the call that began it
        /\ s.op \in {"COMMIT", "ROLLBACK"} => sibLog[Opening(s.by)].op = "BEGIN"
        \* nothing of a call that opened before a COMMIT is sent after it
        /\ s.op = "COMMIT" =>
              \A k \in (i + 1)..Len(sibLog) : Opening(sibLog[k].by) > i

\* C28: when sibling transaction() calls on one manager overlap, every call
\* still closes what it opened itself (COMMIT/ROLLBACK for its BEGIN,
\* RELEASE/ROLLBACK TO for its own savepoint) and COMMIT comes after every
\* statement of the calls running inside that transaction.
C28_SiblingsBracketed == sibOverlapped => Bracketed

\* calls that do not overlap are bracketed
SequentialBracketed == ~sibOverlapped => Bracketed

(***************************************************************************)
(* DatabaseManager: the map of connections by name.                        *)
(***************************************************************************)
ConfiguredNames == {"a", "b"}
DefaultName == "a"
\* "" stands for a call without a name
RequestedNames == {"", "a", "b", "x"}

NoConnections == [n \in ConfiguredNames |-> 0]

\* connection(name), which table(t, name) and schema(name) call first
MgrConnection ==
    /\ \E name \in RequestedNames :
        LET connectionName == IF name = "" THEN DefaultName ELSE name
            record(id) == IF mgrClosing THEN mgrUsed
                          ELSE mgrUsed \cup {[name |-> connectionName, conn |-> id]}
        IN  IF connectionName \in ConfiguredNames /\ mgrConnections[connectionName] # 0
            THEN /\ mgrUsed' = record(mgrConnections[connectionName])
                 /\ UNCHANGED <<mgrConnections, mgrPending, mgrObjects>>
            ELSE IF connectionName \notin ConfiguredNames
            THEN \* throws: not configured
                 UNCHANGED <<mgrConnections, mgrPending, mgrObjects, mgrUsed>>
            ELSE /\ mgrObjects < MaxConnections
                 /\ mgrObjects' = mgrObjects + 1
                 /\ mgrUsed' = record(mgrObjects + 1)
                 /\ IF mgrAsync
                    THEN /\ mgrPending' = mgrPending \cup
                                {[name |-> connectionName, conn |-> mgrObjects + 1]}
                         /\ UNCHANGED mgrConnections
                    ELSE /\ mgrConnections' =
                                [mgrConnections EXCEPT ![connectionName] = mgrObjects + 1]
                         /\ UNCHANGED mgrPending
    /\ UNCHANGED <<mgrAsync, mgrClosing>>
    /\ UNCHANGED notMgr

\* createConnection(config).then(connection => this.connections.set(...))
MgrCreated ==
    /\ \E p \in mgrPending :
        /\ mgrConnections' = [mgrConnections EXCEPT ![p.name] = p.conn]
        /\ mgrPending' = mgrPending \ {p}
    /\ UNCHANGED <<mgrAsync, mgrObjects, mgrUsed, mgrClosing>>
    /\ UNCHANGED notMgr

\* closeAll(), up to its await
MgrCloseAll ==
    /\ ~mgrClosing
    /\ mgrClosing' = TRUE
    /\ UNCHANGED <<mgrAsync, mgrConnections, mgrPending, mgrObjects, mgrUsed>>
    /\ UNCHANGED notMgr

\* closeAll(): this.connections.clear()
MgrCleared ==
    /\ mgrClosing
    /\ mgrConnections' = NoConnections
    /\ mgrUsed' = {}
    /\ mgrClosing' = FALSE
    /\ UNCHANGED <<mgrAsync, mgrPending, mgrObjects>>
    /\ UNCHANGED notMgr

MgrIdle ==
    /\ mgrConnections = NoConnections
    /\ mgrPending = {}
    /\ mgrObjects = 0
    /\ mgrUsed = {}
    /\ mgrClosing = FALSE
MgrNew == mgrAsync = FALSE /\ MgrIdle
MgrInit == mgrAsync \in BOOLEAN /\ MgrIdle
NextMgr == MgrConnection \/ MgrCreated \/ MgrCloseAll \/ MgrCleared

OnePerName ==
    \A u, v \in mgrUsed : (u.name = v.name) <=> (u.conn = v.conn)

\* C29: between two closeAll() calls, any two calls for the same connection
\* name were given the same Connection object, also when the second call was
\* made before the first connection was created, and calls for different
\* names were given different objects.
C29_OneConnectionPerName == OnePerName

\* the manager whose createConnection is synchronous gives one object per name
SyncOnePerName == ~mgrAsync => OnePerName

(***************************************************************************)
(* Migrator (src/Migrations/Migrator.ts): migrate() and rollback() over    *)
(* the migrations table.                                                   *)
(***************************************************************************)
FileNames == 1..MaxFiles

RECURSIVE Sort(_)
\* Array.prototype.sort(), ORDER BY ... ASC: the names in ascending order
Sort(S) == IF S = {} THEN <<>>
           ELSE LET least == CHOOSE x \in S : \A y \in S : x <= y
                IN  <<least>> \o Sort(S \ {least})

Reversed(s) == [i \in 1..Len(s) |-> s[Len(s) + 1 - i]]

\* select('migration').get(), mapped to the names
getRan(rows) == [i \in 1..Len(rows) |-> rows[i].migration]

Ran(rows) == {rows[i].migration : i \in 1..Len(rows)}

\* orderBy('batch', 'desc').limit(1): the highest batch of the table, 0 when empty
TopBatch(rows) ==
    IF rows = <<>> THEN 0
    ELSE CHOOSE b \in {rows[i].batch : i \in 1..Len(rows)} :
            \A i \in 1..Len(rows) : rows[i].batch <= b

\* (a slip: the batch of the previous run used again)
SameBatch(rows) == IF rows = <<>> THEN 1 ELSE TopBatch(rows)

getNextBatchNumber(rows) == IF Len(rows) > 0 THEN TopBatch(rows) + 1 ELSE 1

\* where('batch', batch).orderBy('migration', 'desc'): the names of the last batch
getLastBatch(rows) ==
    IF rows = <<>> THEN <<>>
    ELSE Reversed(Sort({rows[i].migration : i \in {j \in 1..Len(rows) : rows[j].batch = TopBatch(rows)}}))

\* insert({ migration: file, batch })
logMigration(rows, file, batch) == Append(rows, [migration |-> file, batch |-> batch])

\* where('migration', file).delete()
deleteMigration(rows, file) == SelectSeq(rows, LAMBDA row : row.migration # file)

NoMigCall == [kind |-> "none", pc |-> "done", todo |-> <<>>, ran |-> <<>>, batch |-> 0,
              before |-> <<>>, files |-> {}, failed |-> FALSE]

MigRunning == migCall.pc = "running"

\* a migration file is written into the directory
MigAddFile ==
    /\ ~MigRunning
    /\ \E file \in FileNames \ migFiles : migFiles' = migFiles \cup {file}
    /\ UNCHANGED <<ledger, migApplied, migCall>>
    /\ UNCHANGED notMig

\* migrate(), lines 21-33: the pending files and the batch number
MigMigrate ==
    /\ ~MigRunning
    /\ LET ran == getRan(ledger)
           files == Sort(migFiles)
           pending == SelectSeq(files, LAMBDA file : \A i \in 1..Len(ran) : ran[i] # file)
       IN  IF Len(pending) = 0
           THEN migCall' = [NoMigCall EXCEPT !.kind = "migrate", !.before = ledger,
                                            !.files = migFiles]
           ELSE /\ getNextBatchNumber(ledger) <= MaxBatch
                /\ migCall' = [kind |-> "migrate", pc |-> "running", todo |-> pending,
                               ran |-> <<>>, batch |-> getNextBatchNumber(ledger),
                               before |-> ledger, files |-> migFiles, failed |-> FALSE]
    /\ UNCHANGED <<migFiles, ledger, migApplied>>
    /\ UNCHANGED notMig

\* lines 38-41: up() succeeded and the file is logged
MigUp ==
    /\ MigRunning /\ migCall.kind = "migrate"
    /\ LET file == Head(migCall.todo)
       IN  /\ migApplied' = migApplied \cup {file}
           /\ ledger' = logMigration(ledger, file, migCall.batch)
           /\ migCall' = [migCall EXCEPT !.todo = Tail(@), !.ran = Append(@, file),
                              !.pc = IF Len(migCall.todo) = 1 THEN "done" ELSE "running"]
    /\ UNCHANGED migFiles
    /\ UNCHANGED notMig

\* lines 42-46: up() threw; migrate() rethrows
MigUpFailed ==
    /\ MigRunning /\ migCall.kind = "migrate"
    /\ migCall' = [migCall EXCEPT !.pc = "done", !.failed = TRUE]
    /\ UNCHANGED <<migFiles, ledger, migApplied>>
    /\ UNCHANGED notMig

\* rollback(), lines 54-60: the entries of the last batch
MigRollback ==
    /\ ~MigRunning
    /\ LET lastBatch == getLastBatch(ledger)
       IN  migCall' = [kind |-> "rollback",
                       pc |-> IF Len(lastBatch) = 0 THEN "done" ELSE "running",
                       todo |-> lastBatch, ran |-> <<>>, batch |-> TopBatch(ledger),
                       before |-> ledger, files |-> migFiles, failed |-> FALSE]
    /\ UNCHANGED <<migFiles, ledger, migApplied>>
    /\ UNCHANGED notMig

\* lines 65-68: down() succeeded and the entry is deleted
MigDown ==
    /\ MigRunning /\ migCall.kind = "rollback"
    /\ LET file == Head(migCall.todo)
       IN  /\ migApplied' = migApplied \ {file}
           /\ ledger' = deleteMigration(ledger, file)
           /\ migCall' = [migCall EXCEPT !.todo = Tail(@), !.ran = Append(@, file),
                              !.pc = IF Len(migCall.todo) = 1 THEN "done" ELSE "running"]
    /\ UNCHANGED migFiles
    /\ UNCHANGED notMig

\* lines 69-73: down() threw; rollback() rethrows
MigDownFailed ==
    /\ MigRunning /\ migCall.kind = "rollback"
    /\ migCall' = [migCall EXCEPT !.pc = "done", !.failed = TRUE]
    /\ UNCHANGED <<migFiles, ledger, migApplied>>
    /\ UNCHANGED notMig

MigNew == migFiles = {} /\ ledger = <<>> /\ migApplied = {} /\ migCall = NoMigCall
MigInit == MigNew
NextMig == \/ MigAddFile \/ MigMigrate \/ MigUp \/ MigUpFailed
           \/ MigRollback \/ MigDown \/ MigDownFailed

IsPrefixOfSeq(a, b) == Len(a) <= Len(b) /\ \A i \in 1..Len(a) : a[i] = b[i]

Increasing(s) == \A i, j \in 1..Len(s) : i < j => s[i] < s[j]
Decreasing(s) == \A i, j \in 1..Len(s) : i < j => s[i] > s[j]

BatchOf(rows, file) == {rows[i].batch : i \in {j \in 1..Len(rows) : rows[j].migration = file}}

InitQB == QBInit /\ TxInit /\ ConnNew /\ ModelNew /\ PagingNew /\ PivotNew /\ WriteNew /\ HasNew /\ EagerNew /\ ScopeNew /\ SoftNew /\ RouteNew /\ SqliteNew /\ InsertNew /\ MorphNew /\ SiblingNew /\ MgrNew /\ MigNew
SpecQB == InitQB /\ [][QBNext]_vars

InitTx == QBInit /\ TxInit /\ ConnNew /\ ModelNew /\ PagingNew /\ PivotNew /\ WriteNew /\ HasNew /\ EagerNew /\ ScopeNew /\ SoftNew /\ RouteNew /\ SqliteNew /\ InsertNew /\ MorphNew /\ SiblingNew /\ MgrNew /\ MigNew
SpecTx == InitTx /\ [][NextTx]_vars

InitConn == QBInit /\ TxInit /\ ConnInit /\ ModelNew /\ PagingNew /\ PivotNew /\ WriteNew /\ HasNew /\ EagerNew /\ ScopeNew /\ SoftNew /\ RouteNew /\ SqliteNew /\ InsertNew /\ MorphNew /\ SiblingNew /\ MgrNew /\ MigNew
SpecConn == InitConn /\ [][NextConn]_vars

InitDb == QBInit /\ DbInit /\ ConnNew /\ ModelNew /\ PagingNew /\ PivotNew /\ WriteNew /\ HasNew /\ EagerNew /\ ScopeNew /\ SoftNew /\ RouteNew /\ SqliteNew /\ InsertNew /\ MorphNew /\ SiblingNew /\ MgrNew /\ MigNew
SpecDb == InitDb /\ [][NextDb]_vars

InitModel == QBInit /\ TxInit /\ ConnNew /\ ModelInit /\ PagingNew /\ PivotNew /\ WriteNew /\ HasNew /\ EagerNew /\ ScopeNew /\ SoftNew /\ RouteNew /\ SqliteNew /\ InsertNew /\ MorphNew /\ SiblingNew /\ MgrNew /\ MigNew
SpecModel == InitModel /\ [][NextModel]_vars

InitObserved == QBInit /\ TxInit /\ ConnNew /\ ObservedInit /\ PagingNew /\ PivotNew /\ WriteNew /\ HasNew /\ EagerNew /\ ScopeNew /\ SoftNew /\ RouteNew /\ SqliteNew /\ InsertNew /\ MorphNew /\ SiblingNew /\ MgrNew /\ MigNew
SpecObserved == InitObserved /\ [][NextModel]_vars

InitPaging == QBInit /\ TxInit /\ ConnNew /\ ModelNew /\ PagingInit /\ PivotNew /\ WriteNew /\ HasNew /\ EagerNew /\ ScopeNew /\ SoftNew /\ RouteNew /\ SqliteNew /\ InsertNew /\ MorphNew /\ SiblingNew /\ MgrNew /\ MigNew
SpecPaging == InitPaging /\ [][NextPaging]_vars
\* every call that was started goes on: the driver answers, the callback returns
SpecPagingLive == SpecPaging /\ WF_vars(NextPaging)

InitPivot == QBInit /\ TxInit /\ ConnNew /\ ModelNew /\ PagingNew /\ PivotInit /\ WriteNew /\ HasNew /\ EagerNew /\ ScopeNew /\ SoftNew /\ RouteNew /\ SqliteNew /\ InsertNew /\ MorphNew /\ SiblingNew /\ MgrNew /\ MigNew
SpecPivot == InitPivot /\ [][NextPivot]_vars

InitWrite == QBInit /\ TxInit /\ ConnNew /\ ModelNew /\ PagingNew /\ PivotNew /\ WriteInit /\ HasNew /\ EagerNew /\ ScopeNew /\ SoftNew /\ RouteNew /\ SqliteNew /\ InsertNew /\ MorphNew /\ SiblingNew /\ MgrNew /\ MigNew
SpecWrite == InitWrite /\ [][NextWrite]_vars

InitHas == QBInit /\ TxInit /\ ConnNew /\ ModelNew /\ PagingNew /\ PivotNew /\ WriteNew /\ HasInit /\ EagerNew /\ ScopeNew /\ SoftNew /\ RouteNew /\ SqliteNew /\ InsertNew /\ MorphNew /\ SiblingNew /\ MgrNew /\ MigNew
SpecHas == InitHas /\ [][NextHas]_vars

InitEager == QBInit /\ TxInit /\ ConnNew /\ ModelNew /\ PagingNew /\ PivotNew /\ WriteNew /\ HasNew /\ EagerInit /\ ScopeNew /\ SoftNew /\ RouteNew /\ SqliteNew /\ InsertNew /\ MorphNew /\ SiblingNew /\ MgrNew /\ MigNew
SpecEager == InitEager /\ [][NextEager]_vars

InitScope == QBInit /\ TxInit /\ ConnNew /\ ModelNew /\ PagingNew /\ PivotNew /\ WriteNew /\ HasNew /\ EagerNew /\ ScopeInit /\ SoftNew /\ RouteNew /\ SqliteNew /\ InsertNew /\ MorphNew /\ SiblingNew /\ MgrNew /\ MigNew
SpecScope == InitScope /\ [][NextScope]_vars

InitSoft == QBInit /\ TxInit /\ ConnNew /\ ModelNew /\ PagingNew /\ PivotNew /\ WriteNew /\ HasNew /\ EagerNew /\ ScopeNew /\ SoftInit /\ RouteNew /\ SqliteNew /\ InsertNew /\ MorphNew /\ SiblingNew /\ MgrNew /\ MigNew
SpecSoft == InitSoft /\ [][NextSoft]_vars

InitRoute == QBInit /\ TxInit /\ ConnNew /\ ModelNew /\ PagingNew /\ PivotNew /\ WriteNew /\ HasNew /\ EagerNew /\ ScopeNew /\ SoftNew /\ RouteInit /\ SqliteNew /\ InsertNew /\ MorphNew /\ SiblingNew /\ MgrNew /\ MigNew
SpecRoute == InitRoute /\ [][NextRoute]_vars

InitSqlite == QBInit /\ TxInit /\ ConnNew /\ ModelNew /\ PagingNew /\ PivotNew /\ WriteNew /\ HasNew /\ EagerNew /\ ScopeNew /\ SoftNew /\ RouteNew /\ SqliteInit /\ InsertNew /\ MorphNew /\ SiblingNew /\ MgrNew /\ MigNew
SpecSqlite == InitSqlite /\ [][NextSqlite]_vars

InitInsert == QBInit /\ TxInit /\ ConnNew /\ ModelNew /\ PagingNew /\ PivotNew /\ WriteNew /\ HasNew /\ EagerNew /\ ScopeNew /\ SoftNew /\ RouteNew /\ SqliteNew /\ InsertInit /\ MorphNew /\ SiblingNew /\ MgrNew /\ MigNew
SpecInsert == InitInsert /\ [][NextInsert]_vars

InitMorph == QBInit /\ TxInit /\ ConnNew /\ ModelNew /\ PagingNew /\ PivotNew /\ WriteNew /\ HasNew /\ EagerNew /\ ScopeNew /\ SoftNew /\ RouteNew /\ SqliteNew /\ InsertNew /\ MorphInit /\ SiblingNew /\ MgrNew /\ MigNew
SpecMorph == InitMorph /\ [][NextMorph]_vars

InitSibling == QBInit /\ TxInit /\ ConnNew /\ ModelNew /\ PagingNew /\ PivotNew /\ WriteNew /\ HasNew /\ EagerNew /\ ScopeNew /\ SoftNew /\ RouteNew /\ SqliteNew /\ InsertNew /\ MorphNew /\ SiblingInit /\ MgrNew /\ MigNew
SpecSibling == InitSibling /\ [][NextSibling]_vars

InitMgr == QBInit /\ TxInit /\ ConnNew /\ ModelNew /\ PagingNew /\ PivotNew /\ WriteNew /\ HasNew /\ EagerNew /\ ScopeNew /\ SoftNew /\ RouteNew /\ SqliteNew /\ InsertNew /\ MorphNew /\ SiblingNew /\ MgrInit /\ MigNew
SpecMgr == InitMgr /\ [][NextMgr]_vars

InitMig == QBInit /\ TxInit /\ ConnNew /\ ModelNew /\ PagingNew /\ PivotNew /\ WriteNew /\ HasNew /\ EagerNew /\ ScopeNew /\ SoftNew /\ RouteNew /\ SqliteNew /\ InsertNew /\ MorphNew /\ SiblingNew /\ MgrNew /\ MigInit
SpecMig == InitMig /\ [][NextMig]_vars
====
